---- MODULE Spec2Model ----
(***************************************************************************)
(* A model of zuul/executor/server.py: the repository update coordinator   *)
(* (UpdateTask, DeduplicateQueue, ExecutorServer._updateLoop, update, cat, *)
(* merge) and the supervised playbook run of one job (AnsibleJob.stop,     *)
(* runPlaybooks, runAnsible, abortRunningProc, Watchdog).                  *)
(*                                                                         *)
(* Two specifications share the module:                                    *)
(*   SpecUpdate  the update thread, the merger listener thread, the job    *)
(*               threads up to the end of their repository updates and the *)
(*               thread that calls ExecutorServer.stop;                    *)
(*   SpecRun     one job thread inside runPlaybooks, the watchdog threads  *)
(*               it starts and the threads that call AnsibleJob.stop.      *)
(* Each leaves the other's variables at their initial values.              *)
(***************************************************************************)
EXTENDS Integers, Sequences, FiniteSets, TLC

(***************************************************************************)
(* Bounds of the model.                                                    *)
(***************************************************************************)
\* job threads that run concurrently
MaxJobs == 1
\* update() calls one job makes (projects, playbook and role repositories)
MaxProjects == 2
\* requests the merger listener handles
MaxRpcs == 1
\* update() calls made in all, by the job threads and by cat
MaxUpdates == 2
\* pre playbooks of the job
MaxPre == 2
\* post playbooks of the job
MaxPost == 2
\* candidates for the main playbook in args['playbooks']
MaxCand == 2
\* pre playbooks, and post playbooks, of the job that is followed through
\* execute
MaxJobPlaybooks == 1
\* path components of a role's target name
MaxNameLen == 3
\* checkoutTrustedProject calls of one job
MaxTrustedCalls == 3
\* lines a subprocess writes
MaxOutputLines == 201

\* Python's None, as a queue item and as self.proc
None == 0

Jobs == 1..MaxJobs

\* (connection_name, project_name) pairs refreshes are requested for
Keys ==
    { [connection_name |-> "gerrit", project_name |-> "a"],
      [connection_name |-> "github", project_name |-> "a"] }

VARIABLES
    \* ---- ExecutorServer and the update coordinator ----
    running,        \* ExecutorServer._running
    tasks,          \* the UpdateTask objects that were enqueued: task id -> fields
    queue,          \* DeduplicateQueue.queue: task ids, None the stop sentinel
    merger_lock,    \* ExecutorServer.merger_lock: "free" or the thread holding it
    upc,            \* position of the update thread
    utask,          \* local `task` of _innerUpdateLoop
    jpc,            \* position of each job thread
    jkeys,          \* the keys each job thread passed to update(), in order
    jtasks,         \* local `tasks` of AnsibleJob._execute
    jwait,          \* how many of its tasks a job thread has waited for
    mpc,            \* position of the merger listener thread
    mkey,           \* connection and project of the cat request being handled
    mtask,          \* local `task` of cat
    rpcs,           \* requests the merger listener has taken
    updates,        \* update() calls made, or due for a cat request taken
    ssp,            \* position of the thread in ExecutorServer.stop
    \* history of the update coordinator
    refreshes,      \* task id -> merger.updateRepo calls made for it
    completions,    \* task id -> setComplete calls made for it
    raised,         \* task ids whose updateRepo call raised
    \* ---- one job inside runPlaybooks ----
    nPre,           \* len(jobdir.pre_playbooks)
    nPost,          \* len(jobdir.post_playbooks)
    timeout,        \* whether args['timeout'] is set
    pc,             \* position of the job thread
    phase,          \* phase of the playbook being run: "pre", "run", "post"
    index,          \* its index in its list
    result,         \* local `result` of runPlaybooks
    pre_failed,     \* local `pre_failed` of runPlaybooks
    success,        \* local `success` of runPlaybooks
    ra,             \* what runAnsible returned: <<status, code>>
    ret,            \* local `ret` of runAnsible
    aborted,        \* AnsibleJob.aborted
    proc,           \* AnsibleJob.proc: None or the call that launched it
    proc_lock,      \* AnsibleJob.proc_lock: "free" or "job"
    procState,      \* the subprocess launched last: "none", "running", "exited", "killed"
    procRet,        \* its exit code
    wd,             \* local `watchdog` of runAnsible: its fields and its thread's position
    stale,          \* watchdog threads of earlier runAnsible calls that are still
                    \* between their deadline check and their timeout function
    spc,            \* position of each thread inside AnsibleJob.stop
    \* history of the run
    calls,          \* the runAnsiblePlaybook calls made: <<phase, index>>
    launched,       \* the calls that launched a subprocess
    abortedAtCall,  \* the calls entered with the abort flag set
    killedBy,       \* who killed the subprocess launched last
    fired,          \* times the watchdog of the current call invoked its timeout function
    preFailAt,      \* index of the pre playbook that failed, -1 if none did
    mainOut,        \* what runAnsible returned for the main playbook
    postFailAt,     \* index of the first post playbook that failed, -1 if none did
    \* ---- one job inside AnsibleJob.execute, and the execute listener ----
    keep_jobdir,    \* ExecutorServer.keep_jobdir
    job_workers,    \* ExecutorServer.job_workers: the uuids in the table
    epc,            \* position of the job thread in execute and _execute
    jobdir,         \* AnsibleJob.jobdir: whether it is set, its keep flag, its root
    agent,          \* the job's SshAgent: "none", "started", "stopped"
    sent,           \* what the job sent as completion of the execute request
    cands,          \* args['playbooks']: what preparing each candidate comes to
    slots,          \* len(jobdir.playbooks)
    playbook,       \* jobdir.playbook: None or the slot of the chosen candidate
    stopUuid,       \* args['uuid'] of the stop request
    stopAcks,       \* completions sent for the stop request
    \* history of the job
    err,            \* the exception that left _execute: where and which
    conflict,       \* whether the merge of the change items reported a conflict
    checkouts,      \* checkoutBranch calls made
    prep,           \* the preparePlaybook calls made: <<list, index, outcome>>
    cleanup,        \* the cleanup steps of execute made: <<step, outcome>>
    stopFound,      \* what the lookup of the stop request found
    stages,         \* the stages of _execute passed, in their order
    \* ---- findPlaybook and _blockPluginDirs ----
    entries,        \* the directory of the playbook: name -> "absent", "file", "dir"
    cwdDirs,        \* the names that are directories in the working directory
    pbFiles,        \* which of path + '.yaml' and path + '.yml' exist
    pbTrusted,      \* argument `trusted` of findPlaybook
    pbRequired,     \* argument `required` of findPlaybook
    fpOut,          \* what findPlaybook came to
    \* ---- prepareZuulRole ----
    roleRoot,       \* argument `root`: the components of the role's directory
    roleName,       \* role['target_name']: its components
    roleOut,        \* what prepareZuulRole came to
    symlinks,       \* the paths os.symlink was called for
    \* ---- checkoutBranch ----
    branches,       \* repo.getBranches()
    zuul_branch,    \* the arguments of checkoutBranch; "None" for None
    job_branch,
    project_override_branch,
    project_default_branch,
    coOut,          \* the branch checked out, or "ExecutorError"
    \* ---- checkoutTrustedProject ----
    trusted_projects,       \* JobDir.trusted_projects: the roots, by number
    trusted_project_index,  \* JobDir.trusted_project_index: pair -> root
    tpc,            \* whether a further checkoutTrustedProject call can follow
    tCalls,         \* the (canonical name, branch) pairs asked for, in order
    tRoots,         \* the root each call worked with
    tCheckouts,     \* the merger.checkoutBranch calls made: <<pair, root>>
    \* ---- the end of runAnsible ----
    exRet,          \* the exit code of the subprocess
    exLines,        \* the lines the subprocess wrote
    exTimeout,      \* whether the call has a timeout
    exTimedOut,     \* watchdog.timed_out
    exOut,          \* what runAnsible returned
    exAppended      \* what it appended to the job output file

uvars == <<running, tasks, queue, merger_lock, upc, utask, jpc, jkeys, jtasks,
           jwait, mpc, mkey, mtask, rpcs, updates, ssp, refreshes, completions,
           raised>>

\* the job's arguments
conf == <<nPre, nPost, timeout>>

\* the locals of runPlaybooks
locals == <<phase, index, result, pre_failed, success>>

\* the history of the run
hist == <<calls, launched, abortedAtCall, killedBy, fired, preFailAt, mainOut,
          postFailAt>>

rvars == <<conf, locals, hist, pc, ra, ret, aborted, proc, proc_lock,
           procState, procRet, wd, stale, spc>>

\* the job inside execute, the live-job table and the stop request
jvars == <<keep_jobdir, job_workers, epc, jobdir, agent, sent, cands,
           slots, playbook, stopUuid, stopAcks, err, conflict, checkouts,
           prep, cleanup, stopFound, stages>>

\* findPlaybook, prepareZuulRole and checkoutBranch on their own
pvars == <<entries, cwdDirs, pbFiles, pbTrusted, pbRequired, fpOut, roleRoot,
           roleName, roleOut, symlinks, branches, zuul_branch, job_branch,
           project_override_branch, project_default_branch, coOut>>

\* the calls of checkoutTrustedProject within one job
tvars == <<trusted_projects, trusted_project_index, tpc, tCalls, tRoots,
           tCheckouts>>

\* one subprocess that ended, and what runAnsible makes of it
evars == <<exRet, exLines, exTimeout, exTimedOut, exOut, exAppended>>

qvars == <<tvars, evars>>

xvars == <<jvars, pvars, qvars>>

vars == <<uvars, rvars, xvars>>

(***************************************************************************)
(* UpdateTask and DeduplicateQueue                                         *)
(***************************************************************************)

\* UpdateTask.__init__: the event starts unset
UpdateTask(connection_name, project_name) ==
    [connection_name |-> connection_name,
     project_name |-> project_name,
     event |-> FALSE]

\* a mutation of UpdateTaskEq: object identity, as without __eq__
UpdateTaskIs(item, other) == FALSE

\* UpdateTask.__eq__(item, other): item is the task update() just built,
\* other an item of the queue
UpdateTaskEq(item, other) ==
    /\ other # None
    /\ tasks[other].connection_name = item.connection_name
    /\ tasks[other].project_name = item.project_name

\* a mutation of PutMatches: only the head of the queue is compared
PutMatchesHead(item) ==
    { i \in 1..Len(queue) : i = 1 /\ UpdateTaskEq(item, queue[i]) }

\* the positions of the queue whose item equals `item`
PutMatches(item) ==
    { i \in 1..Len(queue) : UpdateTaskEq(item, queue[i]) }

\* DeduplicateQueue.put: the task it returns, the last equal item of the
\* queue or else the new task, which gets the next id
PutReturn(item) ==
    IF PutMatches(item) = {}
    THEN Len(tasks) + 1
    ELSE queue[CHOOSE i \in PutMatches(item) : \A k \in PutMatches(item) : k <= i]

\* a mutation of QueueAppend: the item is put at the head of the queue
QueueAppendLeft(q, item) == <<item>> \o q

\* self.queue.append(item) of DeduplicateQueue.put
QueueAppend(q, item) == Append(q, item)

\* DeduplicateQueue.put of an UpdateTask: what it does to the queue and to
\* the set of live tasks
Put(item) ==
    IF PutMatches(item) = {}
    THEN /\ tasks' = Append(tasks, item)
         /\ queue' = QueueAppend(queue, Len(tasks) + 1)
         /\ refreshes' = Append(refreshes, 0)
         /\ completions' = Append(completions, 0)
    ELSE UNCHANGED <<tasks, queue, refreshes, completions>>

\* a mutation of QueuePopLeft: get leaves the item in the queue
QueuePeek(q) == q

\* self.queue.popleft() of DeduplicateQueue.get: what is left of the queue
QueuePopLeft(q) == Tail(q)

\* a mutation of WaitReturns: the wait returns at once
WaitSkipped(t) == TRUE

\* UpdateTask.wait: self.event.wait() returns once the event of task t is set
WaitReturns(t) == tasks[t].event

\* UpdateTask.setComplete
SetComplete(t) ==
    /\ tasks' = [tasks EXCEPT ![t].event = TRUE]
    /\ completions' = [completions EXCEPT ![t] = @ + 1]

(***************************************************************************)
(* The update thread: ExecutorServer._updateLoop and _innerUpdateLoop      *)
(***************************************************************************)

\* a mutation of LockFree: the lock is taken without waiting for it
LockIgnored(lock) == TRUE

\* threading.Lock: `with lock` enters only while no thread holds it
LockFree(lock) == lock = "free"

\* a mutation of WhileRunning: `while True:`
WhileTrue(flag) == TRUE

\* the test of `while self._running:`
WhileRunning(flag) == flag

\* `while self._running:` of _updateLoop
UpdateLoop ==
    /\ upc = "loop"
    /\ upc' = IF WhileRunning(running) THEN "get" ELSE "exit"
    /\ UNCHANGED <<xvars, rvars, updates, running, tasks, queue, merger_lock, utask, jpc, jkeys,
                   jtasks, jwait, mpc, mkey, mtask, rpcs, ssp, refreshes,
                   completions, raised>>

\* DeduplicateQueue.get, and `if task is None: return`
UpdateGet ==
    /\ upc = "get"
    /\ queue # <<>>
    /\ queue' = QueuePopLeft(queue)
    /\ IF Head(queue) = None
       THEN upc' = "loop" /\ utask' = None
       ELSE upc' = "lock" /\ utask' = Head(queue)
    /\ UNCHANGED <<xvars, rvars, updates, running, tasks, merger_lock, jpc, jkeys, jtasks, jwait,
                   mpc, mkey, mtask, rpcs, ssp, refreshes, completions,
                   raised>>

\* `with self.merger_lock:` of _innerUpdateLoop
UpdateLock ==
    /\ upc = "lock"
    /\ LockFree(merger_lock)
    /\ merger_lock' = "update"
    /\ upc' = "update"
    /\ UNCHANGED <<xvars, rvars, updates, running, tasks, queue, utask, jpc, jkeys, jtasks, jwait,
                   mpc, mkey, mtask, rpcs, ssp, refreshes, completions,
                   raised>>

\* self.merger.updateRepo returns; the `with` releases the lock
UpdateRepoReturns ==
    /\ upc = "update"
    /\ refreshes' = [refreshes EXCEPT ![utask] = @ + 1]
    /\ merger_lock' = "free"
    /\ upc' = "complete"
    /\ UNCHANGED <<xvars, rvars, updates, running, tasks, queue, utask, jpc, jkeys, jtasks, jwait,
                   mpc, mkey, mtask, rpcs, ssp, completions, raised>>

\* self.merger.updateRepo raises; the `with` releases the lock and the
\* exception leaves _innerUpdateLoop, past task.setComplete(), to the bare
\* except of _updateLoop, which logs it
UpdateRepoRaises ==
    /\ upc = "update"
    /\ refreshes' = [refreshes EXCEPT ![utask] = @ + 1]
    /\ raised' = raised \cup {utask}
    /\ merger_lock' = "free"
    /\ upc' = "loop"
    /\ utask' = None
    /\ UNCHANGED <<xvars, rvars, updates, running, tasks, queue, jpc, jkeys, jtasks, jwait, mpc,
                   mkey, mtask, rpcs, ssp, completions>>

\* task.setComplete() of _innerUpdateLoop
UpdateComplete ==
    /\ upc = "complete"
    /\ SetComplete(utask)
    /\ utask' = None
    /\ upc' = "loop"
    /\ UNCHANGED <<xvars, rvars, updates, running, queue, merger_lock, jpc, jkeys, jtasks, jwait,
                   mpc, mkey, mtask, rpcs, ssp, refreshes, raised>>

(***************************************************************************)
(* The job threads: the repository updates of AnsibleJob._execute          *)
(***************************************************************************)

\* tasks.append(self.executor_server.update(connection, project)), for a
\* project or for a playbook or role repository; the loops end after the
\* last one
JobUpdate(j) ==
    \E key \in Keys :
        LET item == UpdateTask(key.connection_name, key.project_name) IN
        /\ jpc[j] = "update"
        /\ Len(jtasks[j]) < MaxProjects
        /\ updates < MaxUpdates
        /\ updates' = updates + 1
        /\ Put(item)
        /\ jtasks' = [jtasks EXCEPT ![j] = Append(@, PutReturn(item))]
        /\ jkeys' = [jkeys EXCEPT ![j] = Append(@, key)]
        /\ \E more \in BOOLEAN :
              jpc' = [jpc EXCEPT ![j] =
                         IF more /\ Len(jtasks[j]) + 1 < MaxProjects
                         THEN "update" ELSE "wait"]
        /\ UNCHANGED <<xvars, rvars, running, merger_lock, upc, utask, jwait, mpc,
                       mkey, mtask, rpcs, ssp, raised>>

\* `for task in tasks: task.wait()`: UpdateTask.wait returns once the event is set
JobWait(j) ==
    /\ jpc[j] = "wait"
    /\ WaitReturns(jtasks[j][jwait[j] + 1])
    /\ jwait' = [jwait EXCEPT ![j] = @ + 1]
    /\ jpc' = [jpc EXCEPT ![j] =
                  IF jwait[j] + 1 = Len(jtasks[j]) THEN "synced" ELSE "wait"]
    /\ UNCHANGED <<xvars, rvars, updates, running, tasks, queue, merger_lock, upc, utask, jkeys,
                   jtasks, mpc, mkey, mtask, rpcs, ssp, refreshes,
                   completions, raised>>

(***************************************************************************)
(* The merger listener thread: run_merger, cat and merge                   *)
(***************************************************************************)

\* `while self._running:` and getJob of run_merger: a cat request
MergerGetCat ==
    \E key \in Keys :
        /\ mpc = "get"
        /\ running
        /\ rpcs < MaxRpcs
        /\ rpcs' = rpcs + 1
        /\ updates < MaxUpdates
        /\ updates' = updates + 1
        /\ mkey' = key
        /\ mpc' = "cat_update"
        /\ UNCHANGED <<xvars, rvars, running, tasks, queue, merger_lock, upc, utask, jpc,
                       jkeys, jtasks, jwait, mtask, ssp, refreshes,
                       completions, raised>>

\* `while self._running:` and getJob of run_merger: a merge request
MergerGetMerge ==
    /\ mpc = "get"
    /\ running
    /\ rpcs < MaxRpcs
    /\ rpcs' = rpcs + 1
    /\ mpc' = "merge_lock"
    /\ UNCHANGED <<xvars, rvars, updates, running, tasks, queue, merger_lock, upc, utask, jpc,
                   jkeys, jtasks, jwait, mkey, mtask, ssp, refreshes,
                   completions, raised>>

\* `while self._running:` of run_merger ends the loop
MergerExit ==
    /\ mpc = "get"
    /\ ~running
    /\ mpc' = "exit"
    /\ UNCHANGED <<xvars, rvars, updates, running, tasks, queue, merger_lock, upc, utask, jpc,
                   jkeys, jtasks, jwait, mkey, mtask, rpcs, ssp, refreshes,
                   completions, raised>>

\* cat: task = self.update(args['connection'], args['project'])
CatUpdate ==
    LET item == UpdateTask(mkey.connection_name, mkey.project_name) IN
    /\ mpc = "cat_update"
    /\ Put(item)
    /\ mtask' = PutReturn(item)
    /\ mpc' = "cat_wait"
    /\ UNCHANGED <<xvars, rvars, updates, running, merger_lock, upc, utask, jpc, jkeys, jtasks,
                   jwait, mkey, rpcs, ssp, raised>>

\* cat: task.wait()
CatWait ==
    /\ mpc = "cat_wait"
    /\ WaitReturns(mtask)
    /\ mpc' = "cat_lock"
    /\ UNCHANGED <<xvars, rvars, updates, running, tasks, queue, merger_lock, upc, utask, jpc,
                   jkeys, jtasks, jwait, mkey, mtask, rpcs, ssp, refreshes,
                   completions, raised>>

\* cat: `with self.merger_lock:`
CatLock ==
    /\ mpc = "cat_lock"
    /\ LockFree(merger_lock)
    /\ merger_lock' = "merger"
    /\ mpc' = "cat_read"
    /\ UNCHANGED <<xvars, rvars, updates, running, tasks, queue, upc, utask, jpc, jkeys, jtasks,
                   jwait, mkey, mtask, rpcs, ssp, refreshes, completions,
                   raised>>

\* cat: self.merger.getFiles returns or raises, the `with` releases the
\* lock, and the request is answered (sendWorkComplete, or
\* sendWorkException in run_merger)
CatRead ==
    /\ mpc = "cat_read"
    /\ merger_lock' = "free"
    /\ mtask' = None
    /\ mpc' = "get"
    /\ UNCHANGED <<xvars, rvars, updates, running, tasks, queue, upc, utask, jpc, jkeys, jtasks,
                   jwait, mkey, rpcs, ssp, refreshes, completions, raised>>

\* merge: `with self.merger_lock:`
MergeLock ==
    /\ mpc = "merge_lock"
    /\ LockFree(merger_lock)
    /\ merger_lock' = "merger"
    /\ mpc' = "merge_run"
    /\ UNCHANGED <<xvars, rvars, updates, running, tasks, queue, upc, utask, jpc, jkeys, jtasks,
                   jwait, mkey, mtask, rpcs, ssp, refreshes, completions,
                   raised>>

\* merge: self.merger.mergeChanges returns or raises, the `with` releases
\* the lock, and the request is answered
MergeRun ==
    /\ mpc = "merge_run"
    /\ merger_lock' = "free"
    /\ mpc' = "get"
    /\ UNCHANGED <<xvars, rvars, updates, running, tasks, queue, upc, utask, jpc, jkeys, jtasks,
                   jwait, mkey, mtask, rpcs, ssp, refreshes, completions,
                   raised>>

(***************************************************************************)
(* ExecutorServer.stop                                                     *)
(***************************************************************************)

\* self._running = False
ServerStopRunning ==
    /\ ssp = "idle"
    /\ running' = FALSE
    /\ ssp' = "put"
    /\ UNCHANGED <<xvars, rvars, updates, tasks, queue, merger_lock, upc, utask, jpc, jkeys, jtasks,
                   jwait, mpc, mkey, mtask, rpcs, refreshes, completions,
                   raised>>

\* self.update_queue.put(None): None equals no UpdateTask, and the
\* `if ret is None` of put then appends it, also when a None is queued
ServerStopPut ==
    /\ ssp = "put"
    /\ queue' = Append(queue, None)
    /\ ssp' = "done"
    /\ UNCHANGED <<xvars, rvars, updates, running, tasks, merger_lock, upc, utask, jpc, jkeys,
                   jtasks, jwait, mpc, mkey, mtask, rpcs, refreshes,
                   completions, raised>>

InitUpdate ==
    /\ running = TRUE
    /\ tasks = <<>>
    /\ queue = <<>>
    /\ merger_lock = "free"
    /\ upc = "loop"
    /\ utask = None
    /\ jpc = [j \in Jobs |-> "update"]
    /\ jkeys = [j \in Jobs |-> <<>>]
    /\ jtasks = [j \in Jobs |-> <<>>]
    /\ jwait = [j \in Jobs |-> 0]
    /\ mpc = "get"
    /\ mkey = CHOOSE key \in Keys : TRUE
    /\ mtask = None
    /\ rpcs = 0
    /\ updates = 0
    /\ ssp = "idle"
    /\ refreshes = <<>>
    /\ completions = <<>>
    /\ raised = {}

NextUpdate ==
    \/ UpdateLoop
    \/ UpdateGet
    \/ UpdateLock
    \/ UpdateRepoReturns
    \/ UpdateRepoRaises
    \/ UpdateComplete
    \/ \E j \in Jobs : JobUpdate(j)
    \/ \E j \in Jobs : JobWait(j)
    \/ MergerGetCat
    \/ MergerGetMerge
    \/ MergerExit
    \/ CatUpdate
    \/ CatWait
    \/ CatLock
    \/ CatRead
    \/ MergeLock
    \/ MergeRun
    \/ ServerStopRunning
    \/ ServerStopPut

\* the steps of the update thread
UpdateThread ==
    \/ UpdateLoop
    \/ UpdateGet
    \/ UpdateLock
    \/ UpdateRepoReturns
    \/ UpdateRepoRaises
    \/ UpdateComplete

\* the steps of the merger listener thread once it has taken a request,
\* and the end of its loop
MergerThread ==
    \/ MergerExit
    \/ CatUpdate
    \/ CatWait
    \/ CatLock
    \/ CatRead
    \/ MergeLock
    \/ MergeRun

\* the threads are scheduled: a thread that can take a step takes it, and
\* updateRepo, getFiles and mergeChanges return or raise
FairUpdate ==
    /\ WF_vars(UpdateThread)
    /\ WF_vars(MergerThread)
    /\ WF_vars(\E j \in Jobs : JobWait(j))
    /\ WF_vars(ServerStopPut)

\* the update thread, the job threads that request refreshes and wait for
\* them, and ExecutorServer.stop
NextStop ==
    \/ UpdateLoop
    \/ UpdateGet
    \/ UpdateLock
    \/ UpdateRepoReturns
    \/ UpdateRepoRaises
    \/ UpdateComplete
    \/ \E j \in Jobs : JobUpdate(j)
    \/ \E j \in Jobs : JobWait(j)
    \/ ServerStopRunning
    \/ ServerStopPut

\* the update thread is scheduled, updateRepo returns or raises, and stop
\* goes on from self._running = False to its put
FairStop == WF_vars(UpdateThread) /\ WF_vars(ServerStopPut)

(***************************************************************************)
(* Properties of the update coordinator, checked under SpecUpdate          *)
(***************************************************************************)

\* the tasks with key `key` that are pending in the queue
PendingWithKey(key) ==
    { queue[i] : i \in { k \in 1..Len(queue) :
        /\ queue[k] # None
        /\ tasks[queue[k]].connection_name = key.connection_name
        /\ tasks[queue[k]].project_name = key.project_name } }

\* whether task t has the key `key`
HasKey(t, key) ==
    /\ tasks[t].connection_name = key.connection_name
    /\ tasks[t].project_name = key.project_name

\* every task was refreshed and completed at most once, a completed task
\* exactly once; every task handed out has the key asked for; and a thread
\* that returned from wait() holds a completed task
C1_State ==
    /\ \A t \in 1..Len(tasks) :
          /\ refreshes[t] <= 1
          /\ completions[t] <= 1
          /\ tasks[t].event => refreshes[t] = 1 /\ completions[t] = 1
    /\ \A j \in Jobs : \A i \in 1..Len(jtasks[j]) :
          /\ HasKey(jtasks[j][i], jkeys[j][i])
          /\ i <= jwait[j] => tasks[jtasks[j][i]].event
    /\ mpc \in {"cat_wait", "cat_lock", "cat_read"} => HasKey(mtask, mkey)
    /\ mpc \in {"cat_lock", "cat_read"} => tasks[mtask].event

\* an update() call made while a task with its key is pending returns that
\* task and enqueues nothing
C1_Step ==
    /\ \A j \in Jobs :
          Len(jtasks'[j]) = Len(jtasks[j]) + 1 =>
             LET key == jkeys'[j][Len(jkeys'[j])]
                 got == jtasks'[j][Len(jtasks'[j])]
             IN  PendingWithKey(key) # {} =>
                    /\ PendingWithKey(key) = {got}
                    /\ queue' = queue
                    /\ tasks' = tasks
    /\ (mpc = "cat_update" /\ mpc' = "cat_wait") =>
          (PendingWithKey(mkey) # {} =>
              /\ PendingWithKey(mkey) = {mtask'}
              /\ queue' = queue
              /\ tasks' = tasks)

\* C1: submissions with the same (connection, project) key made while a
\* task with that key is pending in the update queue all get that one
\* task; it is refreshed (merger.updateRepo) exactly once, and every
\* submitter that leaves wait() does so on the single completion of it.
C1_Coalesced == []C1_State /\ [][C1_Step]_vars

\* a job thread and cat hold the same task, and both have left wait()
C1_Witness ==
    \E j \in Jobs : \E i \in 1..Len(jtasks[j]) :
        /\ mpc \in {"cat_lock", "cat_read"}
        /\ jtasks[j][i] = mtask
        /\ i <= jwait[j]

\* C2: when the refresh of a popped task raised, the task is still marked
\* complete (once the update thread is done with it), so that its waiters
\* are released.
C2_FailedTaskCompleted ==
    \A t \in raised : utask # t => tasks[t].event

\* the refreshes in progress: by the update thread, by cat, by merge
InProgress ==
    {x \in {"refresh", "cat", "merge"} :
        \/ x = "refresh" /\ upc = "update"
        \/ x = "cat" /\ mpc = "cat_read"
        \/ x = "merge" /\ mpc = "merge_run"}

\* C3: at most one of a repository refresh by the update thread, the file
\* read of a cat request and the mergeChanges call of a merge request is in
\* progress, and the one in progress holds merger_lock.
C3_MutualExclusion ==
    /\ Cardinality(InProgress) <= 1
    /\ upc = "update" <=> merger_lock = "update"
    /\ mpc \in {"cat_read", "merge_run"} <=> merger_lock = "merger"

\* a refresh is in progress while the merger listener waits for the lock
C3_Witness ==
    /\ upc = "update"
    /\ mpc \in {"cat_lock", "merge_lock"}

(***************************************************************************)
(* One job inside AnsibleJob.runPlaybooks                                  *)
(***************************************************************************)

\* a runAnsible result without an exit code: (status, None)
NoCode == -1

\* no runAnsible result
NoResult == <<"none", NoCode>>

\* exit codes a subprocess ends with by itself (or, for -9, on a SIGKILL
\* from outside the executor)
ExitCodes == {0, 1, 3, 4, -9}

\* the threads that call AnsibleJob.stop: ExecutorServer.stopJob (the
\* execute listener) and ExecutorServer.stop
Stoppers == {"stopJob", "serverStop"}

\* Watchdog.__init__ before start(): no thread yet
NoWatchdog == [pc |-> "none", running |-> FALSE, timed_out |-> "None"]

\* a mutation of RunAnsibleResult: the watchdog's timed_out is not consulted
RunAnsibleResultByCode(hasTimeout, timed_out, r) ==
    IF r = 3 THEN <<"UNREACHABLE", NoCode>>
    ELSE IF r = -9 THEN <<"ABORTED", NoCode>>
    ELSE <<"NORMAL", r>>

\* the end of runAnsible: the (status, code) it returns for exit code r
RunAnsibleResult(hasTimeout, timed_out, r) ==
    IF hasTimeout /\ timed_out = "True" THEN <<"TIMED_OUT", NoCode>>
    ELSE IF r = 3 THEN <<"UNREACHABLE", NoCode>>
    ELSE IF r = -9 THEN <<"ABORTED", NoCode>>
    ELSE <<"NORMAL", r>>

\* a mutation of AbortSeen: runAnsible launches without looking at the flag
AbortNotChecked(flag) == FALSE

\* `if self.aborted:` of runAnsible
AbortSeen(flag) == flag

\* a mutation of StopFlag: stop() toggles the flag
StopFlagToggle(flag) == ~flag

\* `self.aborted = True` of AnsibleJob.stop: the new value of the flag
StopFlag(flag) == TRUE

\* a mutation of PreFailed: only the exit code of a playbook that ended
\* NORMAL is looked at
PreFailedNormal(status, code) == status = "NORMAL" /\ code # 0

\* `if pre_status != self.RESULT_NORMAL or pre_code != 0:`
PreFailed(status, code) == status # "NORMAL" \/ code # 0

\* a mutation of MainReturns: an aborted or timed-out main playbook goes on
\* to the post playbooks
MainReturnsUnreachable(status) == status = "UNREACHABLE"

\* whether runPlaybooks returns right after the main playbook
MainReturns(status) == status # "NORMAL"

\* the result runPlaybooks returns right after the main playbook
MainReturn(status, res) ==
    IF status = "TIMED_OUT" THEN "TIMED_OUT"
    ELSE IF status = "ABORTED" THEN "ABORTED"
    ELSE res

\* a mutation of MainResult: the exit code is not looked at
MainResultSuccess(code) == "SUCCESS"

\* `success = (job_code == 0)` and the result it gives
MainResult(code) == IF code = 0 THEN "SUCCESS" ELSE "FAILURE"

\* a mutation of PostResult: a failed post playbook overrides only SUCCESS
PostResultKeepsFailure(res, preFailed, status, code) ==
    IF (status # "NORMAL" \/ code # 0) /\ ~preFailed /\ res = "SUCCESS"
    THEN "POST_FAILURE"
    ELSE res

\* a mutation of PostResult: pre_failed is not consulted
PostResultAlways(res, preFailed, status, code) ==
    IF status # "NORMAL" \/ code # 0 THEN "POST_FAILURE" ELSE res

\* the body of the post loop: the result after one post playbook
PostResult(res, preFailed, status, code) ==
    IF (status # "NORMAL" \/ code # 0) /\ ~preFailed
    THEN "POST_FAILURE"
    ELSE res

\* `for index, playbook in enumerate(self.jobdir.pre_playbooks):` is entered
RunPlaybooksStart ==
    /\ pc = "rp_start"
    /\ phase' = IF nPre > 0 THEN "pre" ELSE "run"
    /\ index' = 0
    /\ pc' = "ra_enter"
    /\ UNCHANGED <<xvars, uvars, conf, hist, result, pre_failed, success, ra, ret,
                   aborted, proc, proc_lock, procState, procRet, wd, stale,
                   spc>>

\* runAnsiblePlaybook is called and runAnsible entered (up to the launch
\* section)
RunAnsibleEnter ==
    /\ pc = "ra_enter"
    /\ calls' = Append(calls, <<phase, index>>)
    /\ abortedAtCall' = IF aborted THEN abortedAtCall \cup {Len(calls) + 1}
                        ELSE abortedAtCall
    /\ fired' = 0
    /\ pc' = "ra_lock"
    /\ UNCHANGED <<xvars, uvars, conf, locals, ra, ret, aborted, proc, proc_lock,
                   procState, procRet, wd, stale, spc, launched, killedBy,
                   preFailAt, mainOut, postFailAt>>

\* `with self.proc_lock: if self.aborted: return (self.RESULT_ABORTED, None)`
RunAnsibleLock ==
    /\ pc = "ra_lock"
    /\ proc_lock = "free"
    /\ IF AbortSeen(aborted)
       THEN /\ ra' = <<"ABORTED", NoCode>>
            /\ pc' = "rp_ret"
            /\ UNCHANGED proc_lock
       ELSE /\ proc_lock' = "job"
            /\ pc' = "ra_popen"
            /\ UNCHANGED ra
    /\ UNCHANGED <<xvars, uvars, conf, locals, hist, ret, aborted, proc, procState,
                   procRet, wd, stale, spc>>

\* `self.proc = popen(...)` and the end of the `with self.proc_lock:`
RunAnsiblePopen ==
    /\ pc = "ra_popen"
    /\ proc' = Len(calls)
    /\ procState' = "running"
    /\ killedBy' = "none"
    /\ launched' = launched \cup {Len(calls)}
    /\ proc_lock' = "free"
    /\ pc' = "ra_watchdog"
    /\ UNCHANGED <<xvars, uvars, conf, locals, ra, ret, aborted, procRet, wd, stale,
                   spc, calls, abortedAtCall, fired, preFailAt, mainOut,
                   postFailAt>>

\* `if timeout: watchdog = Watchdog(...); watchdog.start()`
RunAnsibleWatchdog ==
    /\ pc = "ra_watchdog"
    /\ wd' = IF timeout
             THEN [pc |-> "loop", running |-> TRUE, timed_out |-> "None"]
             ELSE wd
    /\ pc' = "ra_wait"
    /\ UNCHANGED <<xvars, uvars, conf, locals, hist, ra, ret, aborted, proc,
                   proc_lock, procState, procRet, stale, spc>>

\* the subprocess ends by itself
ProcExit ==
    \E code \in ExitCodes :
        /\ procState = "running"
        /\ procState' = "exited"
        /\ procRet' = code
        /\ UNCHANGED <<xvars, uvars, conf, locals, hist, pc, ra, ret, aborted, proc,
                       proc_lock, wd, stale, spc>>

\* the output loop ends, `ret = self.proc.wait()`, and the finally:
\* `if timeout: watchdog.stop()`
RunAnsibleWait ==
    /\ pc = "ra_wait"
    /\ procState \in {"exited", "killed"}
    /\ ret' = procRet
    /\ wd' = IF timeout THEN [wd EXCEPT !.running = FALSE] ELSE wd
    /\ pc' = "ra_clear"
    /\ UNCHANGED <<xvars, uvars, conf, locals, hist, ra, aborted, proc, proc_lock,
                   procState, procRet, stale, spc>>

\* `with self.proc_lock: self.proc = None`: the Popen object is dropped
RunAnsibleClear ==
    /\ pc = "ra_clear"
    /\ proc_lock = "free"
    /\ proc' = None
    /\ procState' = "none"
    /\ procRet' = NoCode
    /\ pc' = "ra_return"
    /\ UNCHANGED <<xvars, uvars, conf, locals, hist, ra, ret, aborted, proc_lock, wd,
                   stale, spc>>

\* `if timeout and watchdog.timed_out:` and the mapping of the exit code.
\* runAnsible returns and drops its watchdog: nothing reads the object's
\* fields again, and its thread matters from here on only if it is past
\* its deadline check and will still call the timeout function
RunAnsibleReturn ==
    /\ pc = "ra_return"
    /\ ra' = RunAnsibleResult(timeout, wd.timed_out, ret)
    /\ ret' = NoCode
    /\ stale' = IF wd.pc \in {"fire", "abort"} THEN stale + 1 ELSE stale
    /\ wd' = NoWatchdog
    /\ pc' = "rp_ret"
    /\ UNCHANGED <<xvars, uvars, conf, locals, hist, aborted, proc, proc_lock,
                   procState, procRet, spc>>

\* where runPlaybooks goes when it reaches the post loop
EnterPost ==
    /\ phase' = IF nPost > 0 THEN "post" ELSE phase
    /\ index' = IF nPost > 0 THEN 0 ELSE index
    /\ pc' = IF nPost > 0 THEN "ra_enter" ELSE "done"

\* the body of the pre loop after runAnsiblePlaybook returned
RunPlaybooksPre ==
    /\ pc = "rp_ret"
    /\ phase = "pre"
    /\ IF PreFailed(ra[1], ra[2])
       THEN /\ pre_failed' = TRUE
            /\ success' = "False"
            /\ EnterPost
       ELSE /\ UNCHANGED <<pre_failed, success>>
            /\ phase' = IF index + 1 < nPre THEN "pre" ELSE "run"
            /\ index' = IF index + 1 < nPre THEN index + 1 ELSE 0
            /\ pc' = "ra_enter"
    /\ preFailAt' = IF ra[1] # "NORMAL" \/ ra[2] # 0 THEN index ELSE preFailAt
    /\ ra' = NoResult
    /\ UNCHANGED <<xvars, uvars, conf, result, ret, aborted, proc, proc_lock,
                   procState, procRet, wd, stale, spc, calls, launched,
                   abortedAtCall, killedBy, fired, mainOut, postFailAt>>

\* `if not pre_failed:` after runAnsiblePlaybook returned for the main playbook
RunPlaybooksMain ==
    /\ pc = "rp_ret"
    /\ phase = "run"
    /\ IF MainReturns(ra[1])
       THEN /\ result' = MainReturn(ra[1], result)
            /\ pc' = "done"
            /\ UNCHANGED <<phase, index, success>>
       ELSE /\ success' = IF ra[2] = 0 THEN "True" ELSE "False"
            /\ result' = MainResult(ra[2])
            /\ EnterPost
    /\ mainOut' = ra
    /\ ra' = NoResult
    /\ UNCHANGED <<xvars, uvars, conf, pre_failed, ret, aborted, proc, proc_lock,
                   procState, procRet, wd, stale, spc, calls, launched,
                   abortedAtCall, killedBy, fired, preFailAt, postFailAt>>

\* the body of the post loop after runAnsiblePlaybook returned
RunPlaybooksPost ==
    /\ pc = "rp_ret"
    /\ phase = "post"
    /\ result' = PostResult(result, pre_failed, ra[1], ra[2])
    /\ index' = IF index + 1 < nPost THEN index + 1 ELSE index
    /\ pc' = IF index + 1 < nPost THEN "ra_enter" ELSE "done"
    /\ postFailAt' = IF postFailAt = -1 /\ (ra[1] # "NORMAL" \/ ra[2] # 0)
                     THEN index ELSE postFailAt
    /\ ra' = NoResult
    /\ UNCHANGED <<xvars, uvars, conf, phase, pre_failed, success, ret, aborted,
                   proc, proc_lock, procState, procRet, wd, stale, spc, calls,
                   launched, abortedAtCall, killedBy, fired, preFailAt,
                   mainOut>>

(***************************************************************************)
(* abortRunningProc, the watchdog threads and AnsibleJob.stop              *)
(***************************************************************************)

\* a mutation of ProcLockFree: abortRunningProc does not take the lock
ProcLockIgnored(lock) == TRUE

\* `with self.proc_lock:` of abortRunningProc enters only while the job
\* thread is outside its own `with self.proc_lock:` sections
ProcLockFree(lock) == lock = "free"

\* abortRunningProc, called by `who`: nothing without a process, else
\* SIGKILL to its process group (which ends a running subprocess with -9)
AbortRunningProc(who) ==
    /\ ProcLockFree(proc_lock)
    /\ IF proc # None /\ procState = "running"
       THEN /\ procState' = "killed"
            /\ procRet' = -9
            /\ killedBy' = who
       ELSE UNCHANGED <<procState, procRet, killedBy>>

\* Watchdog._run: the `while self._running and time.time() < self.end:` loop
\* ends, either because stop() was called (then `self.timed_out = False`)
\* or because the deadline passed while _running was still set
WatchdogLoop ==
    /\ wd.pc = "loop"
    /\ \/ /\ ~wd.running
          /\ wd' = [wd EXCEPT !.timed_out = "False", !.pc = "done"]
       \/ /\ wd.running
          /\ wd' = [wd EXCEPT !.pc = "fire"]
    /\ UNCHANGED <<xvars, uvars, conf, locals, hist, pc, ra, ret, aborted, proc,
                   proc_lock, procState, procRet, stale, spc>>

\* Watchdog._run: `self.timed_out = True`
WatchdogFire ==
    /\ wd.pc = "fire"
    /\ wd' = [wd EXCEPT !.timed_out = "True", !.pc = "abort"]
    /\ UNCHANGED <<xvars, uvars, conf, locals, hist, pc, ra, ret, aborted, proc,
                   proc_lock, procState, procRet, stale, spc>>

\* Watchdog._run: `self.function(*self.args)`, that is _ansibleTimeout and
\* its abortRunningProc, while the runAnsible call that started the
\* watchdog has not returned
WatchdogAbort ==
    /\ wd.pc = "abort"
    /\ AbortRunningProc("watchdog")
    /\ fired' = fired + 1
    /\ wd' = [wd EXCEPT !.pc = "done"]
    /\ UNCHANGED <<xvars, uvars, conf, locals, pc, ra, ret, aborted, proc, proc_lock,
                   stale, spc, calls, launched, abortedAtCall, preFailAt,
                   mainOut, postFailAt>>

\* the same steps of Watchdog._run (`self.timed_out = True` if still to
\* do, then the timeout function) in the watchdog thread of a runAnsible
\* call that has returned
StaleWatchdogAbort ==
    /\ stale > 0
    /\ AbortRunningProc("stale")
    /\ stale' = stale - 1
    /\ UNCHANGED <<xvars, uvars, conf, locals, pc, ra, ret, aborted, proc, proc_lock,
                   wd, spc, calls, launched, abortedAtCall, fired, preFailAt,
                   mainOut, postFailAt>>

\* AnsibleJob.stop: `self.aborted = True`
StopSet(s) ==
    /\ spc[s] = "idle"
    /\ aborted' = StopFlag(aborted)
    /\ spc' = [spc EXCEPT ![s] = "abort"]
    /\ UNCHANGED <<xvars, uvars, conf, locals, hist, pc, ra, ret, proc, proc_lock,
                   procState, procRet, wd, stale>>

\* AnsibleJob.stop: `self.abortRunningProc()`
StopAbort(s) ==
    /\ spc[s] = "abort"
    /\ AbortRunningProc("stop")
    /\ spc' = [spc EXCEPT ![s] = "join"]
    /\ UNCHANGED <<xvars, uvars, conf, locals, pc, ra, ret, aborted, proc, proc_lock,
                   wd, stale, calls, launched, abortedAtCall, fired,
                   preFailAt, mainOut, postFailAt>>

\* AnsibleJob.stop: `self.thread.join()` returns once the job thread ended
StopJoin(s) ==
    /\ spc[s] = "join"
    /\ pc = "done"
    /\ spc' = [spc EXCEPT ![s] = "done"]
    /\ UNCHANGED <<xvars, uvars, conf, locals, hist, pc, ra, ret, aborted, proc,
                   proc_lock, procState, procRet, wd, stale>>

\* AnsibleJob.__init__ and the locals of runPlaybooks at its entry
RunStart ==
    /\ pc = "rp_start"
    /\ phase = "pre"
    /\ index = 0
    /\ result = "None"
    /\ pre_failed = FALSE
    /\ success = "unset"
    /\ ra = NoResult
    /\ ret = NoCode
    /\ aborted = FALSE
    /\ proc = None
    /\ proc_lock = "free"
    /\ procState = "none"
    /\ procRet = NoCode
    /\ wd = NoWatchdog
    /\ stale = 0
    /\ spc = [s \in Stoppers |-> "idle"]
    /\ calls = <<>>
    /\ launched = {}
    /\ abortedAtCall = {}
    /\ killedBy = "none"
    /\ fired = 0
    /\ preFailAt = -1
    /\ mainOut = NoResult
    /\ postFailAt = -1

\* the job of SpecRun: any numbers of pre and post playbooks, with or
\* without a timeout
InitRun ==
    /\ nPre \in 0..MaxPre
    /\ nPost \in 0..MaxPost
    /\ timeout \in BOOLEAN
    /\ RunStart

\* the job of SpecUpdate, which never reaches runPlaybooks
IdleRun ==
    /\ nPre = 0
    /\ nPost = 0
    /\ timeout = FALSE
    /\ RunStart

NextRun ==
    \/ RunPlaybooksStart
    \/ RunAnsibleEnter
    \/ RunAnsibleLock
    \/ RunAnsiblePopen
    \/ RunAnsibleWatchdog
    \/ ProcExit
    \/ RunAnsibleWait
    \/ RunAnsibleClear
    \/ RunAnsibleReturn
    \/ RunPlaybooksPre
    \/ RunPlaybooksMain
    \/ RunPlaybooksPost
    \/ WatchdogLoop
    \/ WatchdogFire
    \/ WatchdogAbort
    \/ StaleWatchdogAbort
    \/ \E s \in Stoppers : StopSet(s)
    \/ \E s \in Stoppers : StopAbort(s)
    \/ \E s \in Stoppers : StopJoin(s)

(***************************************************************************)
(* One job inside AnsibleJob.execute, the stop request and the keep        *)
(* commands                                                                *)
(***************************************************************************)

\* job.unique of the job that is executed
JobUuid == 1

\* the uuids a stop request can name: the job's and that of no live job
Uuids == {JobUuid, 2}

\* what preparePlaybook comes to for a candidate of args['playbooks']: its
\* path resolves, findPlaybook returns None, or an ExecutorError is raised
\* (a plugin directory, a role that cannot be prepared)
CandidateOutcomes == {"resolved", "missing", "ExecutorError"}

\* preparePlaybooks stops at the first candidate that resolves or raises:
\* what preparing a later candidate would come to is never looked at, and
\* is taken as "missing"
Untried(l) ==
    \A i \in 1..Len(l) :
        l[i] # "missing" => \A k \in (i + 1)..Len(l) : l[k] = "missing"

\* the lists of candidates of at most n playbooks
CandidateLists(n) ==
    { l \in UNION { [1..k -> CandidateOutcomes] : k \in 0..n } : Untried(l) }

\* AnsibleJob.__init__: self.jobdir = None
NoJobDir == [made |-> FALSE, keep |-> FALSE, exists |-> FALSE]

\* no exception has left _execute
NoErr == [at |-> "none", kind |-> "none"]

\* a mutation of ExecuteExcept: every exception is sent as an ERROR result
ExecuteExceptAsError(kind) == "ERROR"

\* a mutation of ExecuteExcept: execute without its `except ExecutorError`
ExecuteExceptGeneric(kind) == "EXCEPTION"

\* the except clauses of execute: what is sent for an exception of `kind`,
\* sendWorkComplete with result ERROR or sendWorkException
ExecuteExcept(kind) == IF kind = "ExecutorError" THEN "ERROR" ELSE "EXCEPTION"

\* an exception of `kind` raised at `at` leaves _execute: the except clause
\* of execute sends, and the finally clause is entered
Raise(at, kind) ==
    /\ err' = [at |-> at, kind |-> kind]
    /\ sent' = Append(sent, ExecuteExcept(kind))
    /\ epc' = "finally_jobdir"

\* a mutation of AfterMerge: after a conflict _execute goes on to
\* prepareAnsibleFiles and runPlaybooks
AfterMergeRuns(merged) == IF merged THEN "checkout" ELSE "files"

\* a mutation of AfterMerge: the value of doMergeChanges is ignored
AfterMergeIgnored(merged) == "checkout"

\* `if not self.doMergeChanges(...): return` of _execute: where it goes on
AfterMerge(merged) == IF merged THEN "checkout" ELSE "finally_jobdir"

\* a mutation of CandidateBreak: the loop over the candidates has no break
CandidateNoBreak(outcome) == FALSE

\* `if jobdir_playbook.path is not None: ...; break` of preparePlaybooks
CandidateBreak(outcome) == outcome = "resolved"

\* a mutation of JobDirRemoves: cleanup looks at the flag of the server
JobDirRemovesCurrent(keep) == ~keep_jobdir

\* a mutation of JobDirRemoves: the keep flag is not consulted
JobDirRemovesAlways(keep) == TRUE

\* `if not self.keep:` of JobDir.cleanup: whether the root is removed
JobDirRemoves(keep) == ~keep

\* a mutation of CleanupNext: the cleanup steps without their try/except
CleanupUnguarded(next, raises) == IF raises THEN "end" ELSE next

\* the try/except around each cleanup step of execute: where the finally
\* clause goes on after a step that raised or did not
CleanupNext(next, raises) == next

\* a mutation of StopJobFinds: stopJob without `if not job_worker: return`
StopJobFindsAny(unique, workers) == TRUE

\* `job_worker = self.job_workers.get(unique)` and `if not job_worker:`
StopJobFinds(unique, workers) == unique \in workers

\* a mutation of ThreadJoined: AnsibleJob.stop without its join
ThreadJoinSkipped(e) == TRUE

\* `if self.thread: self.thread.join()` of AnsibleJob.stop returns once the
\* job thread, at position e, has ended
ThreadJoined(e) == e = "end"

\* a mutation of WorkDataSent: _execute without sendWorkData
WorkDataNever(raises) == FALSE

\* whether self.job.sendWorkData(json.dumps(data)) is reached, given the
\* call of _execute between preparePlaybooks and runPlaybooks that raises
WorkDataSent(raises) == raises # "prepareAnsibleFiles"

\* a mutation of FinishJob: the job stays in the table
FinishJobKeeps(workers, unique) == workers

\* ExecutorServer.finishJob: del(self.job_workers[unique])
FinishJob(workers, unique) == workers \ {unique}

\* where _execute goes on after the branch checkouts and after each list
\* of playbooks, the empty lists skipped
AfterCheckout == IF nPre > 0 THEN "prepare_pre" ELSE "prepare_main"

\* where preparePlaybooks goes on after the candidates
AfterMain == IF nPost > 0 THEN "prepare_post" ELSE "files"

\* the entries of prep for one list of playbooks
PrepOf(list) == SelectSeq(prep, LAMBDA e : e[1] = list)

\* ExecutorServer.executeJob: the job enters the table and its thread starts
ExecuteJob ==
    /\ epc = "rpc"
    /\ job_workers' = job_workers \cup {JobUuid}
    /\ epc' = "start"
    /\ UNCHANGED <<qvars, pvars, uvars, rvars, keep_jobdir, jobdir, agent, sent,
                   cands, slots, playbook, stopUuid, stopAcks, err, conflict,
                   checkouts, prep, cleanup, stopFound,
                   stages>>

\* execute: self.ssh_agent.start() and self.ssh_agent.add(...)
ExecuteStart ==
    /\ epc = "start"
    /\ \E outcome \in {"ok", "start", "add"} :
          /\ agent' = IF outcome = "start" THEN agent ELSE "started"
          /\ IF outcome = "ok"
             THEN epc' = "jobdir" /\ UNCHANGED <<err, sent>>
             ELSE Raise("start", "Exception")
    /\ UNCHANGED <<qvars, pvars, uvars, rvars, keep_jobdir, job_workers, jobdir,
                   cands, slots, playbook, stopUuid, stopAcks, conflict,
                   checkouts, prep, cleanup, stopFound,
                   stages>>

\* execute: self.jobdir = JobDir(root, self.executor_server.keep_jobdir, uuid)
ExecuteJobDir ==
    /\ epc = "jobdir"
    /\ \E raises \in BOOLEAN :
          IF raises
          THEN Raise("jobdir", "Exception") /\ UNCHANGED jobdir
          ELSE /\ jobdir' = [made |-> TRUE, keep |-> keep_jobdir,
                             exists |-> TRUE]
               /\ epc' = "updates"
               /\ UNCHANGED <<err, sent>>
    /\ UNCHANGED <<qvars, pvars, uvars, rvars, keep_jobdir, job_workers, agent,
                   cands, slots, playbook, stopUuid, stopAcks, conflict,
                   checkouts, prep, cleanup, stopFound,
                   stages>>

\* _execute: the update() calls and `for task in tasks: task.wait()`, which
\* SpecUpdate models step by step
ExecuteUpdates ==
    /\ epc = "updates"
    /\ epc' = "merge"
    /\ stages' = Append(stages, "synced")
    /\ UNCHANGED <<qvars, pvars, uvars, rvars, keep_jobdir, job_workers, jobdir,
                   agent, sent, cands, slots, playbook, stopUuid, stopAcks,
                   err, conflict, checkouts, prep, cleanup, stopFound>>

\* _execute: the clones and, with merge items, doMergeChanges, which sends
\* MERGER_FAILURE on a conflict
ExecuteMerge ==
    /\ epc = "merge"
    /\ \E outcome \in {"no_items", "merged", "conflict", "raises"} :
       /\ stages' = stages \o (IF outcome \in {"merged", "conflict"}
                               THEN <<"clone", "merge">> ELSE <<"clone">>)
       /\ CASE outcome = "raises" ->
                  Raise("merge", "Exception") /\ UNCHANGED conflict
            [] outcome = "conflict" ->
                  /\ conflict' = TRUE
                  /\ sent' = Append(sent, "MERGER_FAILURE")
                  /\ epc' = AfterMerge(FALSE)
                  /\ UNCHANGED err
            [] OTHER ->
                  /\ epc' = IF outcome = "merged" THEN AfterMerge(TRUE)
                            ELSE "checkout"
                  /\ UNCHANGED <<conflict, sent, err>>
    /\ UNCHANGED <<qvars, pvars, uvars, rvars, keep_jobdir, job_workers, jobdir,
                   agent, cands, slots, playbook, stopUuid, stopAcks,
                   checkouts, prep, cleanup, stopFound>>

\* _execute: checkoutBranch for the projects, which raises ExecutorError
\* without a branch to check out, and repo.deleteRemote
ExecuteCheckout ==
    /\ epc = "checkout"
    /\ \E found \in BOOLEAN :
          IF found
          THEN /\ checkouts' = checkouts + 1
               /\ stages' = Append(stages, "checkout")
               /\ epc' = AfterCheckout
               /\ UNCHANGED <<err, sent>>
          ELSE Raise("checkout", "ExecutorError")
               /\ UNCHANGED <<checkouts, stages>>
    /\ UNCHANGED <<qvars, pvars, uvars, rvars, keep_jobdir, job_workers, jobdir,
                   agent, cands, slots, playbook, stopUuid, stopAcks,
                   conflict, prep, cleanup, stopFound>>

\* preparePlaybooks: addPrePlaybook and preparePlaybook(required=True) for
\* the next pre playbook
PreparePre ==
    /\ epc = "prepare_pre"
    /\ \E outcome \in {"resolved", "ExecutorError"} :
          /\ prep' = Append(prep, <<"pre", Len(PrepOf("pre")), outcome>>)
          /\ stages' = Append(stages, "prepare")
          /\ IF outcome = "ExecutorError"
             THEN Raise("prepare_pre", "ExecutorError")
             ELSE /\ epc' = IF Len(PrepOf("pre")) + 1 < nPre
                            THEN "prepare_pre" ELSE "prepare_main"
                  /\ UNCHANGED <<err, sent>>
    /\ UNCHANGED <<qvars, pvars, uvars, rvars, keep_jobdir, job_workers, jobdir,
                   agent, cands, slots, playbook, stopUuid, stopAcks,
                   conflict, checkouts, cleanup, stopFound>>

\* preparePlaybooks: addPlaybook and preparePlaybook(required=False) for
\* the next candidate, the break, and after the loop
\* `if self.jobdir.playbook is None: raise ExecutorError(...)`
PrepareMain ==
    /\ epc = "prepare_main"
    /\ IF slots < Len(cands)
       THEN LET outcome == cands[slots + 1]
                chosen == IF outcome = "resolved" THEN slots + 1 ELSE playbook
                ends == CandidateBreak(outcome) \/ slots + 1 = Len(cands)
            IN  /\ slots' = slots + 1
                /\ prep' = Append(prep, <<"playbook", slots, outcome>>)
                /\ stages' = Append(stages, "prepare")
                /\ playbook' = chosen
                /\ IF outcome = "ExecutorError"
                   THEN Raise("prepare_main", "ExecutorError")
                   ELSE IF ends /\ chosen = None
                   THEN Raise("no_valid_playbook", "ExecutorError")
                   ELSE /\ epc' = IF ends THEN AfterMain ELSE "prepare_main"
                        /\ UNCHANGED <<err, sent>>
       ELSE /\ Raise("no_valid_playbook", "ExecutorError")
            /\ UNCHANGED <<slots, prep, playbook, stages>>
    /\ UNCHANGED <<qvars, pvars, uvars, rvars, keep_jobdir, job_workers, jobdir,
                   agent, cands, stopUuid, stopAcks, conflict, checkouts,
                   cleanup, stopFound>>

\* preparePlaybooks: addPostPlaybook and preparePlaybook(required=True) for
\* the next post playbook
PreparePost ==
    /\ epc = "prepare_post"
    /\ \E outcome \in {"resolved", "ExecutorError"} :
          /\ prep' = Append(prep, <<"post", Len(PrepOf("post")), outcome>>)
          /\ stages' = Append(stages, "prepare")
          /\ IF outcome = "ExecutorError"
             THEN Raise("prepare_post", "ExecutorError")
             ELSE /\ epc' = IF Len(PrepOf("post")) + 1 < nPost
                            THEN "prepare_post" ELSE "files"
                  /\ UNCHANGED <<err, sent>>
    /\ UNCHANGED <<qvars, pvars, uvars, rvars, keep_jobdir, job_workers, jobdir,
                   agent, cands, slots, playbook, stopUuid, stopAcks,
                   conflict, checkouts, cleanup, stopFound>>

\* _execute: prepareAnsibleFiles, sendWorkData, sendWorkStatus, and the
\* call of runPlaybooks
ExecuteFiles ==
    /\ epc = "files"
    /\ \E raises \in {"none", "prepareAnsibleFiles", "sendWorkStatus"} :
          /\ stages' = IF WorkDataSent(raises)
                        THEN Append(stages, "data") ELSE stages
          /\ IF raises # "none"
             THEN Raise("files", "Exception") /\ UNCHANGED pc
             ELSE /\ epc' = "run"
                  /\ pc' = "rp_start"
                  /\ UNCHANGED <<err, sent>>
    /\ UNCHANGED <<qvars, pvars, uvars, conf, locals, hist, ra, ret, aborted, proc,
                   proc_lock, procState, procRet, wd, stale, spc,
                   keep_jobdir, job_workers, jobdir, agent, cands,
                   slots, playbook, stopUuid, stopAcks, conflict, checkouts,
                   prep, cleanup, stopFound>>

\* _execute: runPlaybooks has returned; getResultData and
\* sendWorkComplete(result_data)
ExecuteSend ==
    /\ epc = "run"
    /\ pc = "done"
    /\ sent' = Append(sent, result)
    /\ epc' = "finally_jobdir"
    /\ UNCHANGED <<qvars, pvars, uvars, rvars, keep_jobdir, job_workers, jobdir,
                   agent, cands, slots, playbook, stopUuid, stopAcks, err,
                   conflict, checkouts, prep, cleanup, stopFound,
                   stages>>

\* the finally clause of execute: `if self.jobdir:` and, in a try,
\* self.jobdir.cleanup(), whose rmtree can raise
FinallyJobDir ==
    /\ epc = "finally_jobdir"
    /\ IF jobdir.made
       THEN \E raises \in {FALSE, JobDirRemoves(jobdir.keep)} :
               /\ jobdir' = [jobdir EXCEPT !.exists =
                                IF JobDirRemoves(jobdir.keep) /\ ~raises
                                THEN FALSE ELSE @]
               /\ cleanup' = Append(cleanup,
                                <<"jobdir", IF raises THEN "raised" ELSE "ok">>)
               /\ epc' = CleanupNext("finally_agent", raises)
       ELSE /\ epc' = "finally_agent"
            /\ UNCHANGED <<jobdir, cleanup>>
    /\ UNCHANGED <<qvars, pvars, uvars, rvars, keep_jobdir, job_workers, agent, sent,
                   cands, slots, playbook, stopUuid, stopAcks, err, conflict,
                   checkouts, prep, stopFound,
                   stages>>

\* the finally clause of execute: `if self.ssh_agent:` and, in a try,
\* self.ssh_agent.stop()
FinallyAgent ==
    /\ epc = "finally_agent"
    /\ \E raises \in BOOLEAN :
          /\ agent' = IF agent = "started" /\ ~raises THEN "stopped" ELSE agent
          /\ cleanup' = Append(cleanup,
                           <<"agent", IF raises THEN "raised" ELSE "ok">>)
          /\ epc' = CleanupNext("finally_finish", raises)
    /\ UNCHANGED <<qvars, pvars, uvars, rvars, keep_jobdir, job_workers, jobdir,
                   sent, cands, slots, playbook, stopUuid, stopAcks, err,
                   conflict, checkouts, prep, stopFound,
                   stages>>

\* the finally clause of execute: in a try, finishJob, whose del raises
\* KeyError for a uuid that is not in the table; the thread ends
FinallyFinish ==
    /\ epc = "finally_finish"
    /\ job_workers' = FinishJob(job_workers, JobUuid)
    /\ cleanup' = Append(cleanup,
                     <<"finish", IF JobUuid \in job_workers THEN "ok"
                                 ELSE "raised">>)
    /\ epc' = "end"
    /\ UNCHANGED <<qvars, pvars, uvars, rvars, keep_jobdir, jobdir, agent, sent,
                   cands, slots, playbook, stopUuid, stopAcks, err, conflict,
                   checkouts, prep, stopFound,
                   stages>>

\* ExecutorServer.keep, run from the command socket
KeepCmd ==
    /\ keep_jobdir' = TRUE
    /\ UNCHANGED <<qvars, pvars, uvars, rvars, job_workers, epc, jobdir, agent, sent,
                   cands, slots, playbook, stopUuid, stopAcks, err, conflict,
                   checkouts, prep, cleanup, stopFound,
                   stages>>

\* ExecutorServer.nokeep, run from the command socket
NokeepCmd ==
    /\ keep_jobdir' = FALSE
    /\ UNCHANGED <<qvars, pvars, uvars, rvars, job_workers, epc, jobdir, agent, sent,
                   cands, slots, playbook, stopUuid, stopAcks, err, conflict,
                   checkouts, prep, cleanup, stopFound,
                   stages>>

\* stopJob: the lookup of args['uuid'] in the table; without a worker it
\* returns, and its finally clause sends the completion
StopJobLookup ==
    /\ spc["stopJob"] = "rpc"
    /\ stopFound' = IF stopUuid \in job_workers THEN "present" ELSE "absent"
    /\ IF StopJobFinds(stopUuid, job_workers)
       THEN /\ spc' = [spc EXCEPT !["stopJob"] = "idle"]
            /\ UNCHANGED stopAcks
       ELSE /\ spc' = [spc EXCEPT !["stopJob"] = "done"]
            /\ stopAcks' = stopAcks + 1
    /\ UNCHANGED <<qvars, pvars, uvars, conf, locals, hist, ra, ret, aborted, proc,
                   proc_lock, procState, procRet, wd, stale, pc, keep_jobdir,
                   job_workers, epc, jobdir, agent, sent, cands, slots,
                   playbook, stopUuid, err, conflict, checkouts, prep,
                   cleanup, stages>>

\* AnsibleJob.stop: self.thread.join() returns when the job thread has
\* ended; stopJob then sends the completion in its finally clause
StopJobJoin ==
    /\ spc["stopJob"] = "join"
    /\ ThreadJoined(epc)
    /\ spc' = [spc EXCEPT !["stopJob"] = "done"]
    /\ stopAcks' = stopAcks + 1
    /\ UNCHANGED <<qvars, pvars, uvars, conf, locals, hist, ra, ret, aborted, proc,
                   proc_lock, procState, procRet, wd, stale, pc, keep_jobdir,
                   job_workers, epc, jobdir, agent, sent, cands, slots,
                   playbook, stopUuid, err, conflict, checkouts, prep,
                   cleanup, stopFound,
                   stages>>

\* ExecutorServer.stop: `for job_worker in list(self.job_workers.values())`
\* takes the jobs in the table at that moment, and job_worker.stop() is
\* called for each
ServerStopJobs ==
    /\ spc["serverStop"] = "off"
    /\ spc' = [spc EXCEPT !["serverStop"] =
                  IF JobUuid \in job_workers THEN "idle" ELSE "done"]
    /\ UNCHANGED <<qvars, pvars, uvars, conf, locals, hist, ra, ret, aborted,
                   proc, proc_lock, procState, procRet, wd, stale, pc, jvars>>

\* AnsibleJob.stop called from ExecutorServer.stop: self.thread.join()
\* returns when the job thread has ended
ServerStopJoin ==
    /\ spc["serverStop"] = "join"
    /\ ThreadJoined(epc)
    /\ spc' = [spc EXCEPT !["serverStop"] = "done"]
    /\ UNCHANGED <<qvars, pvars, uvars, conf, locals, hist, ra, ret, aborted,
                   proc, proc_lock, procState, procRet, wd, stale, pc, jvars>>

\* the job and the server at rest, for the specifications that do not
\* follow a job through execute
IdleJob ==
    /\ keep_jobdir = FALSE
    /\ job_workers = {}
    /\ epc = "off"
    /\ jobdir = NoJobDir
    /\ agent = "none"
    /\ sent = <<>>
    /\ cands = <<>>
    /\ slots = 0
    /\ playbook = None
    /\ stopUuid = JobUuid
    /\ stopAcks = 0
    /\ err = NoErr
    /\ conflict = FALSE
    /\ checkouts = 0
    /\ prep = <<>>
    /\ cleanup = <<>>
    /\ stopFound = "none"
    /\ stages = <<>>

\* ExecutorServer.__init__ and AnsibleJob.__init__ for a job whose execute
\* request is about to be taken, with any arguments, and a stop request
\* that names the job or no live job
InitJob ==
    /\ keep_jobdir \in BOOLEAN
    /\ job_workers = {}
    /\ epc = "rpc"
    /\ jobdir = NoJobDir
    /\ agent = "none"
    /\ sent = <<>>
    /\ cands \in CandidateLists(MaxCand)
    /\ slots = 0
    /\ playbook = None
    /\ stopUuid \in Uuids
    /\ stopAcks = 0
    /\ err = NoErr
    /\ conflict = FALSE
    /\ checkouts = 0
    /\ prep = <<>>
    /\ cleanup = <<>>
    /\ stopFound = "none"
    /\ stages = <<>>
    /\ nPre \in 0..MaxJobPlaybooks
    /\ nPost \in 0..MaxJobPlaybooks
    /\ timeout = FALSE
    /\ pc = "idle"
    /\ phase = "pre"
    /\ index = 0
    /\ result = "None"
    /\ pre_failed = FALSE
    /\ success = "unset"
    /\ ra = NoResult
    /\ ret = NoCode
    /\ aborted = FALSE
    /\ proc = None
    /\ proc_lock = "free"
    /\ procState = "none"
    /\ procRet = NoCode
    /\ wd = NoWatchdog
    /\ stale = 0
    /\ spc = [s \in Stoppers |-> IF s = "stopJob" THEN "rpc" ELSE "off"]
    /\ calls = <<>>
    /\ launched = {}
    /\ abortedAtCall = {}
    /\ killedBy = "none"
    /\ fired = 0
    /\ preFailAt = -1
    /\ mainOut = NoResult
    /\ postFailAt = -1

NextJob ==
    \/ ExecuteJob
    \/ ExecuteStart
    \/ ExecuteJobDir
    \/ ExecuteUpdates
    \/ ExecuteMerge
    \/ ExecuteCheckout
    \/ PreparePre
    \/ PrepareMain
    \/ PreparePost
    \/ ExecuteFiles
    \/ RunPlaybooksStart
    \/ RunAnsibleEnter
    \/ RunAnsibleLock
    \/ RunAnsiblePopen
    \/ RunAnsibleWatchdog
    \/ ProcExit
    \/ RunAnsibleWait
    \/ RunAnsibleClear
    \/ RunAnsibleReturn
    \/ RunPlaybooksPre
    \/ RunPlaybooksMain
    \/ RunPlaybooksPost
    \/ ExecuteSend
    \/ FinallyJobDir
    \/ FinallyAgent
    \/ FinallyFinish
    \/ KeepCmd
    \/ NokeepCmd
    \/ StopJobLookup
    \/ StopSet("stopJob")
    \/ StopAbort("stopJob")
    \/ StopJobJoin

\* a mutation of TasksWaited: _execute without `for task in tasks: task.wait()`
TasksNotWaited(j) == TRUE

\* the update() calls of _execute were made and the loop
\* `for task in tasks: task.wait()` has ended
TasksWaited(j) == jpc[j] = "synced"

\* _execute: an update() call of the job that is followed through execute
StageUpdate == epc = "updates" /\ JobUpdate(JobUuid)

\* _execute: a task.wait() of that job returns
StageWait == epc = "updates" /\ JobWait(JobUuid)

\* _execute goes on to the clones after its last task.wait()
StageSynced == TasksWaited(JobUuid) /\ ExecuteUpdates

\* the job of SpecStages: one candidate, no stop request, no keep command
InitStages ==
    /\ InitJob
    /\ Len(cands) = 1
    /\ stopUuid = JobUuid
    /\ ~keep_jobdir

\* the job thread through execute, with its updates step by step, and the
\* update thread
NextStages ==
    \/ UpdateLoop
    \/ UpdateGet
    \/ UpdateLock
    \/ UpdateRepoReturns
    \/ UpdateRepoRaises
    \/ UpdateComplete
    \/ ExecuteJob
    \/ ExecuteStart
    \/ ExecuteJobDir
    \/ StageUpdate
    \/ StageWait
    \/ StageSynced
    \/ ExecuteMerge
    \/ ExecuteCheckout
    \/ PreparePre
    \/ PrepareMain
    \/ PreparePost
    \/ ExecuteFiles
    \/ RunPlaybooksStart
    \/ RunAnsibleEnter
    \/ RunAnsibleLock
    \/ RunAnsiblePopen
    \/ RunAnsibleWatchdog
    \/ ProcExit
    \/ RunAnsibleWait
    \/ RunAnsibleClear
    \/ RunAnsibleReturn
    \/ RunPlaybooksPre
    \/ RunPlaybooksMain
    \/ RunPlaybooksPost
    \/ ExecuteSend
    \/ FinallyJobDir
    \/ FinallyAgent
    \/ FinallyFinish

\* ExecutorServer._getMerger: the cache_root of the merger it makes for
\* `root`; the merger of a job's src_root and of a trusted-project slot
\* has the directory of the main merger, which the refreshes update, as
\* its cache
GetMergerCacheRoot(root) ==
    IF root # "merge_root" THEN "merge_root" ELSE "None"

\* the job thread through execute, the update thread, and cat requests,
\* whose refreshes are not the job's own
NextCache ==
    \/ NextStages
    \/ MergerGetCat
    \/ CatUpdate
    \/ CatWait
    \/ CatLock
    \/ CatRead

\* a job without pre and post playbooks and with one candidate, for the
\* specification that follows the table of live jobs
InitTable ==
    /\ InitJob
    /\ nPre = 0
    /\ nPost = 0
    /\ Len(cands) = 1
    /\ ~keep_jobdir

\* the execute listener, the job thread and the thread in
\* ExecutorServer.stop
NextTable ==
    \/ ExecuteJob
    \/ ExecuteStart
    \/ ExecuteJobDir
    \/ ExecuteUpdates
    \/ ExecuteMerge
    \/ ExecuteCheckout
    \/ PrepareMain
    \/ ExecuteFiles
    \/ RunPlaybooksStart
    \/ RunAnsibleEnter
    \/ RunAnsibleLock
    \/ RunAnsiblePopen
    \/ RunAnsibleWatchdog
    \/ ProcExit
    \/ RunAnsibleWait
    \/ RunAnsibleClear
    \/ RunAnsibleReturn
    \/ RunPlaybooksMain
    \/ ExecuteSend
    \/ FinallyJobDir
    \/ FinallyAgent
    \/ FinallyFinish
    \/ StopJobLookup
    \/ StopJobJoin
    \/ ServerStopJobs
    \/ ServerStopJoin
    \/ \E s \in Stoppers : StopSet(s)
    \/ \E s \in Stoppers : StopAbort(s)


(***************************************************************************)
(* findPlaybook and _blockPluginDirs                                       *)
(***************************************************************************)

\* file names, as the pieces the code looks at
EntryNames == { <<"action", "_plugins">>, <<"_plugins", "old">>, <<"tasks">> }

\* entry.endswith(suffix)
EndsWith(entry, suffix) == entry[Len(entry)] = suffix

\* os.listdir(path)
ListDir(dir) == { e \in DOMAIN dir : dir[e] # "absent" }

\* os.path.isdir(entry) of _blockPluginDirs: entry is a bare name, which
\* the operating system resolves against the working directory
IsDir(entry, dir, cwd) == entry \in cwd

\* _blockPluginDirs(path): whether it raises ExecutorError
BlockPluginDirs(dir, cwd) ==
    \E entry \in ListDir(dir) :
        IsDir(entry, dir, cwd) /\ EndsWith(entry, "_plugins")

\* findPlaybook(path, required, trusted): the file name found, None, or the
\* ExecutorError raised
FindPlaybook(files, dir, cwd, required, trusted) ==
    IF files # {}
    THEN IF ~trusted /\ BlockPluginDirs(dir, cwd)
         THEN "ExecutorError"
         ELSE IF ".yaml" \in files THEN ".yaml" ELSE ".yml"
    ELSE IF required THEN "ExecutorError" ELSE "None"

\* preparePlaybook calls findPlaybook
FindPlaybookCall ==
    /\ fpOut = "pending"
    /\ fpOut' = FindPlaybook(pbFiles, entries, cwdDirs, pbRequired, pbTrusted)
    /\ UNCHANGED <<qvars, uvars, rvars, jvars, entries, cwdDirs, pbFiles, pbTrusted,
                   pbRequired, roleRoot, roleName, roleOut, symlinks,
                   branches, zuul_branch, job_branch,
                   project_override_branch, project_default_branch, coOut>>

\* no findPlaybook call is followed
IdlePlugins ==
    /\ entries = [e \in EntryNames |-> "absent"]
    /\ cwdDirs = {}
    /\ pbFiles = {}
    /\ pbTrusted = FALSE
    /\ pbRequired = FALSE
    /\ fpOut = "none"

\* any directory of the playbook, any working directory, any arguments
InitPlugins ==
    /\ entries \in [EntryNames -> {"absent", "file", "dir"}]
    /\ cwdDirs \in SUBSET EntryNames
    /\ pbFiles \in SUBSET {".yaml", ".yml"}
    /\ pbTrusted \in BOOLEAN
    /\ pbRequired \in BOOLEAN
    /\ fpOut = "pending"

NextPlugins == FindPlaybookCall

\* C14: findPlaybook for a playbook that exists in an untrusted repository
\* raises ExecutorError when the directory of the playbook has a
\* subdirectory whose name ends in '_plugins', whatever the working
\* directory of the process is.
C14_PluginDirBlocked ==
    ( /\ fpOut # "pending"
      /\ ~pbTrusted
      /\ pbFiles # {}
      /\ \E e \in EntryNames : entries[e] = "dir" /\ EndsWith(e, "_plugins") )
    => fpOut = "ExecutorError"

(***************************************************************************)
(* prepareZuulRole: the symlink of a role                                  *)
(***************************************************************************)

\* the component '..'
DotDot == <<".", ".">>

\* path components, each the sequence of its characters: '..', 'role_1',
\* 'role_10' and 'x'
Components == { DotDot, <<"r", "1">>, <<"r", "1", "0">>, <<"x">> }

\* the role directories JobDirPlaybook.addRole makes: <playbook>/role_1 and
\* <playbook>/role_10
RoleRoots == { << <<"p">>, <<"r", "1">> >>, << <<"p">>, <<"r", "1", "0">> >> }

\* the target names of at most n components
TargetNames(n) == UNION { [1..k -> Components] : k \in 1..n }

\* os.path.realpath of a path without symbolic links: '..' drops the
\* component before it
RECURSIVE Normalize(_, _)
Normalize(done, rest) ==
    IF rest = <<>> THEN done
    ELSE IF Head(rest) = DotDot
    THEN Normalize(IF done = <<>> THEN <<>>
                   ELSE SubSeq(done, 1, Len(done) - 1), Tail(rest))
    ELSE Normalize(Append(done, Head(rest)), Tail(rest))

\* os.path.realpath(os.path.join(root, name))
RealPath(path) == Normalize(<<>>, path)

\* a path as the string the code holds: '/' before each component
RECURSIVE PathString(_)
PathString(path) ==
    IF path = <<>> THEN <<>>
    ELSE <<"/">> \o Head(path) \o PathString(Tail(path))

\* str.startswith
StartsWith(str, prefix) ==
    Len(prefix) <= Len(str) /\ SubSeq(str, 1, Len(prefix)) = prefix

\* `if not link.startswith(os.path.realpath(root)):` of prepareZuulRole
LinkRefused(link, root) ==
    ~StartsWith(PathString(link), PathString(RealPath(root)))

\* prepareZuulRole from `link = os.path.join(root, name)` on: the
\* ExecutorError, or os.symlink(path, link), which raises OSError for a link
\* that exists (the role's directory itself)
PrepareZuulRole ==
    LET link == RealPath(roleRoot \o roleName) IN
    /\ roleOut = "pending"
    /\ IF LinkRefused(link, roleRoot)
       THEN roleOut' = "ExecutorError" /\ UNCHANGED symlinks
       ELSE IF link = RealPath(roleRoot)
       THEN roleOut' = "OSError" /\ UNCHANGED symlinks
       ELSE roleOut' = "linked" /\ symlinks' = symlinks \cup {link}
    /\ UNCHANGED <<qvars, uvars, rvars, jvars, entries, cwdDirs, pbFiles, pbTrusted,
                   pbRequired, fpOut, roleRoot, roleName, branches,
                   zuul_branch, job_branch, project_override_branch,
                   project_default_branch, coOut>>

\* no prepareZuulRole call is followed
IdleRole ==
    /\ roleRoot = << <<"p">>, <<"r", "1">> >>
    /\ roleName = << <<"x">> >>
    /\ roleOut = "none"
    /\ symlinks = {}

\* any role directory and any target name
InitRole ==
    /\ roleRoot \in RoleRoots
    /\ roleName \in TargetNames(MaxNameLen)
    /\ roleOut = "pending"
    /\ symlinks = {}

NextRole == PrepareZuulRole

\* whether path lies in the directory dir or is dir itself
Within(path, dir) ==
    Len(dir) <= Len(path) /\ SubSeq(path, 1, Len(dir)) = dir

\* C15: when the canonical path of <role root>/<target name> lies outside
\* the role's root directory, also in a sibling directory whose name begins
\* with the name of the root, prepareZuulRole raises ExecutorError and
\* makes no symlink.
C15_RoleOutsideRootRefused ==
    ( /\ roleOut \notin {"none", "pending"}
      /\ ~Within(RealPath(roleRoot \o roleName), RealPath(roleRoot)) )
    => (roleOut = "ExecutorError" /\ symlinks = {})

(***************************************************************************)
(* checkoutBranch                                                          *)
(***************************************************************************)

\* branch names
Branches == {"master", "stable", "feature"}

\* the values of a branch argument
BranchArgs == Branches \cup {"None"}

\* a mutation of CheckoutBranch: the zuul branch is tried before the job
\* branch
CheckoutBranchZuulFirst(have, zuul, job, override, default) ==
    IF override \in have THEN override
    ELSE IF zuul # "None" /\ zuul \in have THEN zuul
    ELSE IF job \in have THEN job
    ELSE IF default \in have THEN default
    ELSE "ExecutorError"

\* checkoutBranch: the branch it checks out, or the ExecutorError it raises
CheckoutBranch(have, zuul, job, override, default) ==
    IF override \in have THEN override
    ELSE IF job \in have THEN job
    ELSE IF zuul # "None" /\ zuul \in have THEN zuul
    ELSE IF default \in have THEN default
    ELSE "ExecutorError"

\* _execute calls checkoutBranch for a project
CheckoutBranchCall ==
    /\ coOut = "pending"
    /\ coOut' = CheckoutBranch(branches, zuul_branch, job_branch,
                               project_override_branch,
                               project_default_branch)
    /\ UNCHANGED <<qvars, uvars, rvars, jvars, entries, cwdDirs, pbFiles, pbTrusted,
                   pbRequired, fpOut, roleRoot, roleName, roleOut, symlinks,
                   branches, zuul_branch, job_branch,
                   project_override_branch, project_default_branch>>

\* no checkoutBranch call is followed
IdleCheckout ==
    /\ branches = {}
    /\ zuul_branch = "None"
    /\ job_branch = "None"
    /\ project_override_branch = "None"
    /\ project_default_branch = "None"
    /\ coOut = "none"

\* any set of branches in the repository and any arguments
InitCheckout ==
    /\ branches \in SUBSET Branches
    /\ zuul_branch \in BranchArgs
    /\ job_branch \in BranchArgs
    /\ project_override_branch \in BranchArgs
    /\ project_default_branch \in BranchArgs
    /\ coOut = "pending"

NextCheckout == CheckoutBranchCall

\* the candidates of checkoutBranch in their order of priority
Priority ==
    <<project_override_branch, job_branch, zuul_branch,
      project_default_branch>>

\* the positions of Priority whose branch exists
Existing == { i \in 1..4 : Priority[i] \in branches }

\* C16: checkoutBranch checks out the first existing branch in the order
\* project override branch, job branch, zuul branch, project default
\* branch, and raises ExecutorError, checking out nothing, when none of
\* the four exists.
C16_CheckoutPriority ==
    coOut \notin {"none", "pending"} =>
        IF Existing = {}
        THEN coOut = "ExecutorError"
        ELSE \E i \in Existing :
                /\ \A k \in Existing : i <= k
                /\ coOut = Priority[i]

\* only the default branch exists, and it was checked out
C16_Witness ==
    /\ Existing = {4}
    /\ zuul_branch # "None"
    /\ coOut = project_default_branch

\* none of the four exists, and checkoutBranch raised
C16_NoneExists ==
    /\ Existing = {}
    /\ project_default_branch # "None"
    /\ coOut = "ExecutorError"

(***************************************************************************)
(* checkoutTrustedProject and the trusted-project slots of JobDir          *)
(***************************************************************************)

\* the (canonical name, branch) pairs a job asks for
TrustedPairs == {"git.example/a", "git.example/b"} \X {"master", "stable"}

\* dict.get without an entry: None
NoRoot == -1

\* a mutation of GetTrustedProject: no slot is ever found
GetTrustedProjectNone(idx, pair) == NoRoot

\* JobDir.getTrustedProject
GetTrustedProject(idx, pair) == idx[pair]

\* checkoutTrustedProject(project, branch): the slot that is found, or
\* addTrustedProject, whose os.makedirs can raise, and
\* merger.checkoutBranch, which can raise; an exception ends the job
CheckoutTrustedProject ==
    \E pair \in TrustedPairs, outcome \in {"ok", "makedirs", "checkoutBranch"} :
        LET root == GetTrustedProject(trusted_project_index, pair)
            count == Len(trusted_projects)
        IN  /\ tpc = "ready"
            /\ Len(tCalls) < MaxTrustedCalls
            /\ tCalls' = Append(tCalls, pair)
            /\ IF root # NoRoot
               THEN /\ tRoots' = Append(tRoots, root)
                    /\ UNCHANGED <<trusted_projects, trusted_project_index,
                                   tCheckouts, tpc>>
               ELSE IF outcome = "makedirs"
               THEN /\ tpc' = "raised"
                    /\ UNCHANGED <<trusted_projects, trusted_project_index,
                                   tCheckouts, tRoots>>
               ELSE /\ trusted_projects' = Append(trusted_projects, count)
                    /\ trusted_project_index' =
                          [trusted_project_index EXCEPT ![pair] = count]
                    /\ tCheckouts' = Append(tCheckouts, <<pair, count>>)
                    /\ IF outcome = "checkoutBranch"
                       THEN tpc' = "raised" /\ UNCHANGED tRoots
                       ELSE tRoots' = Append(tRoots, count) /\ UNCHANGED tpc
            /\ UNCHANGED <<uvars, rvars, jvars, pvars, evars>>

\* no checkoutTrustedProject call is followed
IdleTrusted ==
    /\ trusted_projects = <<>>
    /\ trusted_project_index = [pair \in TrustedPairs |-> NoRoot]
    /\ tpc = "off"
    /\ tCalls = <<>>
    /\ tRoots = <<>>
    /\ tCheckouts = <<>>

\* JobDir.__init__: no trusted project yet
InitTrusted ==
    /\ trusted_projects = <<>>
    /\ trusted_project_index = [pair \in TrustedPairs |-> NoRoot]
    /\ tpc = "ready"
    /\ tCalls = <<>>
    /\ tRoots = <<>>
    /\ tCheckouts = <<>>

NextTrusted == CheckoutTrustedProject

\* the pairs asked for so far
Requested == { tCalls[i] : i \in 1..Len(tCalls) }

\* the checkouts made for a pair
CheckoutsOf(pair) == { i \in 1..Len(tCheckouts) : tCheckouts[i][1] = pair }

\* C24: after any sequence of checkoutTrustedProject calls of a job there
\* is exactly one trusted-project slot and exactly one branch checkout for
\* each distinct (canonical name, branch) pair asked for: a repeated pair
\* gets the slot it has and no new checkout, and distinct pairs have
\* different slots.
C24_TrustedSlots ==
    /\ \A p \in TrustedPairs, q \in TrustedPairs :
          (p # q /\ trusted_project_index[p] # NoRoot)
              => trusted_project_index[p] # trusted_project_index[q]
    /\ \A p \in TrustedPairs :
          /\ Cardinality(CheckoutsOf(p)) <= 1
          /\ trusted_project_index[p] # NoRoot =>
                /\ p \in Requested
                /\ CheckoutsOf(p) # {}
                /\ trusted_project_index[p] \in 0..(Len(trusted_projects) - 1)
    /\ \A i \in 1..Len(tRoots) : tRoots[i] = trusted_project_index[tCalls[i]]
    /\ \A i \in 1..Len(tCheckouts) :
          tCheckouts[i][2] = trusted_project_index[tCheckouts[i][1]]
    /\ tpc = "ready" =>
          /\ Len(trusted_projects) = Cardinality(Requested)
          /\ Len(tCheckouts) = Cardinality(Requested)
          /\ Len(tRoots) = Len(tCalls)
          /\ \A p \in Requested : trusted_project_index[p] # NoRoot

\* three calls for two pairs: the repeated pair got its slot again
C24_Witness ==
    /\ tpc = "ready"
    /\ Len(tCalls) = 3
    /\ tCalls[1] = tCalls[3]
    /\ tCalls[1] # tCalls[2]
    /\ tCalls[1][1] = tCalls[2][1]
    /\ tRoots = <<0, 1, 0>>
    /\ Len(tCheckouts) = 2

(***************************************************************************)
(* The end of runAnsible: the exit code and the syntax buffer              *)
(***************************************************************************)

BUFFER_LINES_FOR_SYNTAX == 200

\* exit codes of a subprocess: the negated signal when a signal ended it
AnyExitCodes == -9..5

\* the output of n lines, each line its number
Output(n) == [i \in 1..n |-> i]

\* a mutation of SyntaxBuffer: every line is retained
SyntaxBufferAll(lines) == lines

\* syntax_buffer after the loop over the output: the lines whose idx, from
\* 0, is below BUFFER_LINES_FOR_SYNTAX
SyntaxBuffer(lines) ==
    LET kept == { i \in 1..Len(lines) : i - 1 < BUFFER_LINES_FOR_SYNTAX }
    IN  [i \in 1..Cardinality(kept) |-> lines[i]]

\* nothing appended to the job output file
NoAppend == [header |-> FALSE, lines |-> <<>>]

\* what runAnsible appends to jobdir.job_output_file: for exit code 4,
\* when it did not return TIMED_OUT before, the line ANSIBLE PARSE ERROR
\* and the lines of the syntax buffer
JobOutputAppend(hasTimeout, timed_out, r, lines) ==
    IF ~(hasTimeout /\ timed_out = "True") /\ r = 4
    THEN [header |-> TRUE, lines |-> SyntaxBuffer(lines)]
    ELSE NoAppend

\* runAnsible from `if timeout and watchdog.timed_out:` to its return
RunAnsibleEnd ==
    /\ exOut = NoResult
    /\ exOut' = RunAnsibleResult(exTimeout, exTimedOut, exRet)
    /\ exAppended' = JobOutputAppend(exTimeout, exTimedOut, exRet, exLines)
    /\ UNCHANGED <<uvars, rvars, jvars, pvars, tvars, exRet, exLines,
                   exTimeout, exTimedOut>>

\* no subprocess is followed
IdleExit ==
    /\ exRet = NoCode
    /\ exLines = <<>>
    /\ exTimeout = FALSE
    /\ exTimedOut = "None"
    /\ exOut = NoResult
    /\ exAppended = NoAppend

\* a subprocess that ended with any exit code after any number of lines,
\* with a watchdog that fired or did not, or without one
InitExit ==
    /\ exRet \in AnyExitCodes
    /\ exLines \in { Output(n) : n \in 0..MaxOutputLines }
    /\ exTimeout \in BOOLEAN
    /\ exTimedOut \in (IF exTimeout THEN {"None", "True"} ELSE {"None"})
    /\ exOut = NoResult
    /\ exAppended = NoAppend

NextExit == RunAnsibleEnd

\* the first lines of the output, BUFFER_LINES_FOR_SYNTAX at most
FirstLines ==
    SubSeq(exLines, 1, IF Len(exLines) < BUFFER_LINES_FOR_SYNTAX
                       THEN Len(exLines) ELSE BUFFER_LINES_FOR_SYNTAX)

\* C29: when the watchdog did not fire runAnsible returns, for every exit
\* code: (UNREACHABLE, None) for 3, (ABORTED, None) for -9, (NORMAL, 4) for 4
\* after it appended the retained output, the first 200 lines at most, to
\* the job output file, and (NORMAL, c) for every other code c, with
\* nothing appended.
C29_ExitCodeMapping ==
    (exOut # NoResult /\ ~(exTimeout /\ exTimedOut = "True")) =>
        /\ exRet = 3 => exOut = <<"UNREACHABLE", NoCode>>
        /\ exRet = -9 => exOut = <<"ABORTED", NoCode>>
        /\ exRet = 4 =>
              /\ exOut = <<"NORMAL", 4>>
              /\ exAppended = [header |-> TRUE, lines |-> FirstLines]
              /\ Len(exAppended.lines) <= 200
        /\ exRet \notin {3, -9, 4} => exOut = <<"NORMAL", exRet>>
        /\ exRet # 4 => exAppended = NoAppend

\* exit code 4 after more lines than the buffer retains
C29_Witness ==
    /\ exOut = <<"NORMAL", 4>>
    /\ exRet = 4
    /\ Len(exLines) > BUFFER_LINES_FOR_SYNTAX
    /\ Len(exAppended.lines) = BUFFER_LINES_FOR_SYNTAX
    /\ exAppended.header

(***************************************************************************)
(* Properties of runPlaybooks, runAnsible and stop, checked under SpecRun  *)
(***************************************************************************)

\* the playbooks 0..n-1 of a phase, as runAnsiblePlaybook calls
PhaseCalls(ph, n) == [i \in 1..n |-> <<ph, i - 1>>]

\* the calls made for the playbooks of a phase, in the order made
CallsOf(ph) == SelectSeq(calls, LAMBDA c : c[1] = ph)

\* whether sequence s is the beginning of sequence t
IsPrefix(s, t) == Len(s) <= Len(t) /\ SubSeq(t, 1, Len(s)) = s

\* the job thread is inside runAnsible, past the launch section's check
InRunAnsible ==
    pc \in {"ra_popen", "ra_watchdog", "ra_wait", "ra_clear", "ra_return"}

\* C4: once pre playbook k has failed (status not NORMAL, or a non-zero
\* exit code), the calls runPlaybooks makes are the pre playbooks 0..k and
\* then the post playbooks in order (no later pre playbook, no main
\* playbook), all of them by the time it returns, and its result is None
\* whatever the post playbooks return.
C4_PreFailure ==
    preFailAt # -1 =>
        /\ result = "None"
        /\ IsPrefix(calls, PhaseCalls("pre", preFailAt + 1)
                             \o PhaseCalls("post", nPost))
        /\ pc = "done" =>
              calls = PhaseCalls("pre", preFailAt + 1)
                        \o PhaseCalls("post", nPost)

\* the first of two pre playbooks failed, a post playbook failed too, and
\* runPlaybooks has returned
C4_Witness ==
    /\ pc = "done"
    /\ nPre = 2
    /\ preFailAt = 0
    /\ nPost = 2
    /\ postFailAt # -1

\* C5: when the main playbook ended NORMAL (after the pre playbooks
\* succeeded) and a post playbook has failed, the result is POST_FAILURE,
\* in place of SUCCESS as well as of FAILURE, and runPlaybooks still calls
\* every post playbook, in order, before it returns.
C5_PostFailure ==
    (mainOut[1] = "NORMAL" /\ postFailAt # -1) =>
        /\ preFailAt = -1
        /\ result = "POST_FAILURE"
        /\ IsPrefix(CallsOf("post"), PhaseCalls("post", nPost))
        /\ pc = "done" => CallsOf("post") = PhaseCalls("post", nPost)

\* the main playbook failed with exit code 1, the first of two post
\* playbooks failed, and runPlaybooks has returned
C5_Witness ==
    /\ pc = "done"
    /\ mainOut = <<"NORMAL", 1>>
    /\ nPost = 2
    /\ postFailAt = 0
    /\ Len(CallsOf("post")) = 2

\* C6: when the main playbook ended with a status other than NORMAL,
\* runPlaybooks has returned without calling a post playbook, with
\* TIMED_OUT for TIMED_OUT, ABORTED for ABORTED and None for anything else.
C6_MainNotNormal ==
    mainOut[1] \notin {"none", "NORMAL"} =>
        /\ pc = "done"
        /\ CallsOf("post") = <<>>
        /\ calls[Len(calls)] = <<"run", 0>>
        /\ result = CASE mainOut[1] = "TIMED_OUT" -> "TIMED_OUT"
                      [] mainOut[1] = "ABORTED" -> "ABORTED"
                      [] OTHER -> "None"

\* the main playbook of a job with post playbooks ended UNREACHABLE
C6_Witness ==
    /\ mainOut[1] = "UNREACHABLE"
    /\ nPost > 0
    /\ pc = "done"

\* the subprocess of the current runAnsible call was killed by the
\* watchdog of that call
KilledByWatchdog ==
    /\ Len(calls) \in launched
    /\ killedBy = "watchdog"

C8_NoLaunchAfterAbort ==
    [][(pc = "ra_popen" /\ pc' # "ra_popen") => ~aborted]_vars

\* C8: a runAnsible call entered with the abort flag set launches no
\* subprocess and returns ABORTED.
C8_AbortedCallSkips ==
    \A k \in abortedAtCall :
        /\ k \notin launched
        /\ k = Len(calls) =>
              /\ ~InRunAnsible
              /\ pc = "rp_ret" => ra = <<"ABORTED", NoCode>>

\* after an earlier playbook was launched, a call entered with the flag
\* set has returned
C8_Witness ==
    /\ Len(calls) \in abortedAtCall
    /\ launched # {}
    /\ pc = "rp_ret"

\* C9: once the abort step of a stop() call has returned, no subprocess of
\* the job is running and none is about to be launched: the launch section
\* either saw the flag, or the subprocess it launched was killed.
C9_AbortNotLost ==
    \A s \in Stoppers :
        spc[s] \in {"join", "done"} =>
            /\ aborted
            /\ procState # "running"
            /\ pc # "ra_popen"

\* the abort step of a stop() call killed the running subprocess
C9_Witness ==
    /\ spc["stopJob"] = "join"
    /\ killedBy = "stop"
    /\ procState = "killed"

\* C10: the abort flag starts false, and once it is true no step makes it
\* false again.
C10_AbortOneWay == ~aborted /\ [][aborted => aborted']_vars

\* both stop() calls have run and the flag is set
C10_Witness ==
    /\ aborted
    /\ \A s \in Stoppers : spc[s] = "done"

\* C11: a watchdog whose runAnsible call has seen the subprocess exit and
\* has called watchdog.stop() never invokes the kill action, so that the
\* subprocess of a playbook is never killed by the watchdog that was armed
\* for an earlier playbook of the job.
C11_StoppedWatchdogDisarmed == killedBy # "stale"

\* every pre playbook of the job was run and finished NORMAL with code 0
AllPreOk == CallsOf("pre") = PhaseCalls("pre", nPre) /\ preFailAt = -1

\* every post playbook of the job was run and finished NORMAL with code 0
AllPostOk == CallsOf("post") = PhaseCalls("post", nPost) /\ postFailAt = -1

\* C31: when runPlaybooks has returned, its result is SUCCESS exactly when
\* every pre playbook, the main playbook and every post playbook finished
\* NORMAL with exit code 0, and FAILURE exactly when every pre and post
\* playbook finished NORMAL with exit code 0 and the main playbook finished
\* NORMAL with another exit code.
C31_SuccessFailure ==
    pc = "done" =>
        /\ result = "SUCCESS" <=>
              (AllPreOk /\ mainOut = <<"NORMAL", 0>> /\ AllPostOk)
        /\ result = "FAILURE" <=>
              (AllPreOk /\ mainOut[1] = "NORMAL" /\ mainOut[2] # 0 /\ AllPostOk)

\* two pre playbooks and two post playbooks succeeded, the main playbook
\* ended with exit code 1, and runPlaybooks has returned
C31_Witness ==
    /\ pc = "done"
    /\ nPre = 2
    /\ nPost = 2
    /\ Len(calls) = 5
    /\ mainOut = <<"NORMAL", 1>>
    /\ postFailAt = -1
    /\ result = "FAILURE"

\* the call that launched the last subprocess
LastLaunched == CHOOSE k \in launched : \A l \in launched : l <= k

\* a stop() call killed the subprocess of a pre playbook
StopKilledPre ==
    /\ launched # {}
    /\ killedBy = "stop"
    /\ calls[LastLaunched][1] = "pre"

\* C38: after stop() killed the subprocess of a pre playbook the main
\* playbook is not run, every post playbook is called with the abort flag
\* set, launches no subprocess and returns ABORTED, the pre phase is marked
\* failed and runPlaybooks returns None; the result is ABORTED only when
\* runAnsible returned ABORTED for the main playbook.
C38_StopInPre ==
    /\ result = "ABORTED" => mainOut[1] = "ABORTED"
    /\ StopKilledPre =>
          /\ result = "None"
          /\ mainOut = NoResult
          /\ CallsOf("run") = <<>>
          /\ \A k \in 1..Len(calls) :
                calls[k][1] = "post" => (k \notin launched /\ k \in abortedAtCall)
          /\ (pc = "rp_ret" /\ phase = "post") => ra = <<"ABORTED", NoCode>>
          /\ pc = "done" =>
                /\ pre_failed
                /\ preFailAt = calls[LastLaunched][2]
                /\ CallsOf("post") = PhaseCalls("post", nPost)

\* stop() killed the second pre playbook, the two post playbooks were
\* called, and runPlaybooks has returned
C38_Witness ==
    /\ StopKilledPre
    /\ calls[LastLaunched] = <<"pre", 1>>
    /\ nPost = 2
    /\ Len(CallsOf("post")) = 2
    /\ pc = "done"
    /\ result = "None"

(***************************************************************************)
(* Properties of execute, preparePlaybooks and stopJob, checked under      *)
(* SpecJob                                                                 *)
(***************************************************************************)

\* C12: once an ExecutorError has left _execute, the job has sent exactly
\* one completion, with result ERROR (not the unset result None), and
\* runPlaybooks is never entered: no runAnsible call, no subprocess.
C12_ExecutorError ==
    err.kind = "ExecutorError" =>
        /\ sent = <<"ERROR">>
        /\ pc = "idle"
        /\ calls = <<>>
        /\ launched = {}
        /\ procState = "none"

\* a required post playbook could not be prepared, and the job thread has
\* ended
C12_Witness ==
    /\ err = [at |-> "prepare_post", kind |-> "ExecutorError"]
    /\ epc = "end"
    /\ sent = <<"ERROR">>

\* no candidate of args['playbooks'] resolves
NoneResolves == \A i \in 1..Len(cands) : cands[i] = "missing"

\* preparePlaybooks is through with the candidates
CandidatesDone ==
    /\ checkouts > 0
    /\ err.at # "prepare_pre"
    /\ epc \notin {"prepare_pre", "prepare_main"}

\* C13: the candidates are prepared in the given order, one slot each; the
\* chosen playbook is the first one that resolves, it has a resolved path,
\* and no candidate after it gets a slot or is prepared; when none resolves,
\* preparePlaybooks raises ExecutorError with no post playbook prepared and
\* no subprocess launched.
C13_MainSelection ==
    /\ slots <= Len(cands)
    /\ PrepOf("playbook") = [i \in 1..slots |-> <<"playbook", i - 1, cands[i]>>]
    /\ playbook # None =>
          /\ playbook = slots
          /\ cands[playbook] = "resolved"
          /\ \A i \in 1..(playbook - 1) : cands[i] = "missing"
    /\ (PrepOf("post") # <<>> \/ calls # <<>>) => playbook # None
    /\ (NoneResolves /\ CandidatesDone) =>
          /\ err = [at |-> "no_valid_playbook", kind |-> "ExecutorError"]
          /\ slots = Len(cands)
          /\ playbook = None
          /\ PrepOf("post") = <<>>
          /\ launched = {}

\* the first of two candidates resolves and the job has run
C13_Witness ==
    /\ cands = <<"resolved", "missing">>
    /\ playbook = 1
    /\ slots = 1
    /\ launched # {}
    /\ epc = "end"

\* C17: when the merge of the items reports a conflict, the job sends the
\* single completion MERGER_FAILURE and then checks out no branch, prepares
\* no playbook and launches no subprocess.
C17_MergeConflict ==
    conflict =>
        /\ sent = <<"MERGER_FAILURE">>
        /\ checkouts = 0
        /\ prep = <<>>
        /\ slots = 0
        /\ playbook = None
        /\ calls = <<>>
        /\ launched = {}
        /\ pc = "idle"

\* a job with a conflict whose thread has ended
C17_Witness ==
    /\ conflict
    /\ epc = "end"
    /\ sent = <<"MERGER_FAILURE">>

\* the names of the cleanup steps made so far
CleanupSteps == [i \in 1..Len(cleanup) |-> cleanup[i][1]]

\* the job thread is in the finally clause of execute or has ended
InFinally == epc \in {"finally_jobdir", "finally_agent", "finally_finish", "end"}

\* however execute was left, the thread that has ended made the cleanup of
\* the workspace when there is one, then the stop of the agent, then
\* finishJob, whichever of them raised; the job is not in the table; one
\* result was sent
C18_State ==
    epc = "end" =>
        /\ CleanupSteps = (IF jobdir.made THEN <<"jobdir">> ELSE <<>>)
                          \o <<"agent", "finish">>
        /\ JobUuid \notin job_workers
        /\ Len(sent) = 1

\* nothing is sent from the finally clause
C18_Step == InFinally => sent' = sent

\* C18: on every path through execute the cleanup runs: the cleanup of the
\* workspace is attempted when the workspace was made, the stop of the SSH
\* agent is attempted and the job is removed from the table of live jobs;
\* a step that raises does not keep the later steps from running and is
\* not sent as the result of the job.
C18_CleanupAlways == []C18_State /\ [][C18_Step]_vars

\* an ExecutorError left _execute, the cleanup of the workspace and the
\* stop of the agent both raised, and finishJob was still called
C18_Witness ==
    /\ epc = "end"
    /\ cleanup = << <<"jobdir", "raised">>, <<"agent", "raised">>,
                    <<"finish", "ok">> >>
    /\ sent = <<"ERROR">>
    /\ JobUuid \notin job_workers

\* the workspace that JobDir.cleanup did not fail on is gone when its keep
\* flag is unset and there when it is set
C19_State ==
    (epc \in {"finally_agent", "finally_finish", "end"} /\ jobdir.made) =>
        /\ (~jobdir.keep /\ <<"jobdir", "ok">> = cleanup[1]) => ~jobdir.exists
        /\ jobdir.keep => jobdir.exists

\* the keep flag of the workspace is keep_jobdir of the server when the
\* workspace is made, and the workspace is there until the cleanup
C19_Step ==
    /\ (~jobdir.made /\ jobdir'.made) => jobdir'.keep = keep_jobdir
    /\ (jobdir.made /\ epc' # "finally_agent") => jobdir' = jobdir

\* C19: at the completion of the job the root of the workspace is removed
\* when the keep flag, the value of keep_jobdir with which the workspace
\* was made, is unset, and is left in place when it is set.
C19_KeepFlag == []C19_State /\ [][C19_Step]_vars

\* a workspace made without the keep flag and removed at the completion of
\* a job that sent its result
C19_Witness ==
    /\ epc = "end"
    /\ jobdir.made
    /\ ~jobdir.keep
    /\ ~jobdir.exists
    /\ pc = "done"

\* a workspace made with the keep flag and left in place
C19_Kept ==
    /\ epc = "end"
    /\ jobdir.made
    /\ jobdir.keep
    /\ jobdir.exists
    /\ ~keep_jobdir

\* the workspace whose cleanup did not fail is there exactly when its own
\* keep flag is set, whatever keep_jobdir is by then
C37_State ==
    (epc \in {"finally_agent", "finally_finish", "end"} /\ jobdir.made
        /\ cleanup[1] = <<"jobdir", "ok">>) => (jobdir.exists <=> jobdir.keep)

\* the keep flag of a workspace is keep_jobdir when it is made and never
\* changes afterwards; a keep or nokeep command changes keep_jobdir and
\* nothing of the job
C37_Step ==
    /\ (~jobdir.made /\ jobdir'.made) => jobdir'.keep = keep_jobdir
    /\ jobdir.made => (jobdir'.made /\ jobdir'.keep = jobdir.keep)
    /\ keep_jobdir' # keep_jobdir =>
          /\ jobdir' = jobdir
          /\ epc' = epc
          /\ cleanup' = cleanup

\* C37: whether a job's workspace is removed at its end is decided by the
\* value keep_jobdir had when the workspace was made; a keep or nokeep
\* command issued while the job is in flight changes keep_jobdir only.
C37_KeepAtCreation == []C37_State /\ [][C37_Step]_vars

\* a keep command came while the job was in flight, and the workspace made
\* without the flag was removed all the same
C37_Witness ==
    /\ epc = "end"
    /\ jobdir.made
    /\ ~jobdir.keep
    /\ keep_jobdir
    /\ ~jobdir.exists
    /\ sent = <<"SUCCESS">>

\* one completion at most is sent for the stop request, and it is sent
\* when stopJob returns; the job found in the table has its abort flag set
\* once stop() has run; when no job is found no abort is requested
C20_State ==
    /\ stopAcks <= 1
    /\ (spc["stopJob"] = "done") <=> (stopAcks = 1)
    /\ (stopFound = "present" /\ spc["stopJob"] \in {"abort", "join", "done"})
           => (aborted /\ stopUuid = JobUuid)
    /\ stopFound = "absent" =>
           /\ spc["stopJob"] = "done"
           /\ ~aborted
           /\ killedBy = "none"

\* the lookup that finds no job changes nothing of the job
C20_Step ==
    (spc["stopJob"] = "rpc" /\ spc'["stopJob"] # "rpc"
        /\ stopUuid \notin job_workers) =>
            /\ UNCHANGED <<conf, locals, hist, pc, ra, ret, aborted, proc,
                           procState, procRet, job_workers, epc, jobdir,
                           agent, sent, err, conflict, checkouts, prep,
                           cleanup>>
            /\ stopAcks' = 1

\* C20: stopJob looks the uuid up in the table of live jobs; the job that
\* is found is asked to abort; when none is found no state of a job is
\* changed and no error is raised; in both cases the stop request is
\* acknowledged by one completion.
C20_StopLookup == []C20_State /\ [][C20_Step]_vars

\* a stop request for the live job: its abort was requested and the request
\* was acknowledged after the job thread ended
C20_Witness ==
    /\ stopFound = "present"
    /\ spc["stopJob"] = "done"
    /\ stopAcks = 1
    /\ aborted
    /\ epc = "end"

\* a stop request for a uuid that is not in the table while the job runs
C20_Absent ==
    /\ stopFound = "absent"
    /\ stopUuid # JobUuid
    /\ stopAcks = 1
    /\ JobUuid \in job_workers

\* the sendWorkData calls made: the notifications with the finger:// url
WorkData == SelectSeq(stages, LAMBDA e : e = "data")

\* the results that runPlaybooks returns
RunResults == {"SUCCESS", "FAILURE", "ABORTED", "POST_FAILURE", "TIMED_OUT",
               "None"}

\* C22: every result document sent as the completion of the execute
\* request is preceded by exactly one worker notification, sent before the
\* first subprocess of the job is launched.
C22_ResultAfterWorkData ==
    /\ (sent # <<>> /\ sent[1] # "EXCEPTION") => Len(WorkData) = 1
    /\ launched # {} => Len(WorkData) = 1

\* C22 for the result that runPlaybooks returned: that result document is
\* preceded by exactly one worker notification, sent before the first
\* runAnsiblePlaybook call and so before the first subprocess; the
\* documents MERGER_FAILURE and ERROR are sent with no notification before
\* them, and no more than one notification is sent.
C22_RunResultAfterWorkData ==
    /\ Len(WorkData) <= 1
    /\ (sent # <<>> /\ sent[1] \in RunResults) => Len(WorkData) = 1
    /\ (calls # <<>> \/ launched # {} \/ pc # "idle") => Len(WorkData) = 1
    /\ (sent # <<>> /\ sent[1] \in {"MERGER_FAILURE", "ERROR"})
          => (WorkData = <<>> /\ launched = {})

\* a job that launched a subprocess and sent the result of runPlaybooks
C22_Witness ==
    /\ epc = "end"
    /\ launched # {}
    /\ sent = <<"SUCCESS">>
    /\ Len(WorkData) = 1

\* C23: an exception other than ExecutorError that leaves _execute, or the
\* calls of execute before it, is reported by sendWorkException and no
\* completion with a result document is sent for the job.
C23_UnexpectedException ==
    (err # NoErr /\ err.kind = "Exception") => sent = <<"EXCEPTION">>

\* the exception was raised after the worker notification, and the job
\* thread has ended
C23_Witness ==
    /\ err # NoErr
    /\ err.kind = "Exception"
    /\ err.at = "files"
    /\ Len(WorkData) = 1
    /\ sent = <<"EXCEPTION">>
    /\ epc = "end"

\* the terminal responses to an execute request: the completions with a
\* result document (the results of runPlaybooks, None among them, ERROR and
\* MERGER_FAILURE) and the exception
Terminal == RunResults \cup {"None", "ERROR", "MERGER_FAILURE", "EXCEPTION"}

\* C34: a job thread sends at most one terminal response, a completion or
\* an exception, it has sent exactly one when it reaches the finally clause
\* of execute and when it ends, and it sends none before the end of
\* _execute.
C34_OneTerminalResponse ==
    /\ Len(sent) <= 1
    /\ \A i \in 1..Len(sent) : sent[i] \in Terminal
    /\ InFinally <=> Len(sent) = 1

\* the job thread ended after runPlaybooks returned no result for a main
\* playbook that was killed, and the one completion carries None
C34_Witness ==
    /\ epc = "end"
    /\ sent = <<"None">>
    /\ err = NoErr
    /\ mainOut[1] \notin {"none", "NORMAL"}

\* the execute listener is inside stopJob, past its lookup
InStopJob == spc["stopJob"] \in {"idle", "abort", "join"}

\* the completion of a stop request that found the job is sent when the job
\* thread has ended; while the execute listener is inside stopJob it takes
\* no execute request
C39_Step ==
    /\ (stopAcks' = stopAcks + 1 /\ stopFound = "present") =>
          /\ epc = "end"
          /\ Len(sent) = 1
          /\ CleanupSteps = (IF jobdir.made THEN <<"jobdir">> ELSE <<>>)
                            \o <<"agent", "finish">>
          /\ JobUuid \notin job_workers
          /\ UNCHANGED <<epc, sent, cleanup, job_workers>>
    /\ InStopJob =>
          /\ job_workers' \subseteq job_workers
          /\ epc # "rpc"

Registered ==
    {"start", "jobdir", "updates", "merge", "checkout", "prepare_pre",
     "prepare_main", "prepare_post", "files", "run", "finally_jobdir",
     "finally_agent", "finally_finish"}

\* the job is in the table from executeJob to finishJob of its own
\* cleanup, whose del found it
C25_State ==
    /\ (JobUuid \in job_workers) <=> (epc \in Registered)
    /\ job_workers \subseteq {JobUuid}
    /\ epc = "end" => cleanup[Len(cleanup)] = <<"finish", "ok">>

\* the table changes by the insert of executeJob and the removal of
\* finishJob only, and the lookups of stopJob and of ExecutorServer.stop
\* made while the job is registered find it
C25_Step ==
    /\ job_workers' # job_workers =>
          \/ epc = "rpc" /\ job_workers = {} /\ job_workers' = {JobUuid}
          \/ epc = "finally_finish" /\ job_workers = {JobUuid}
                /\ job_workers' = {}
    /\ (spc["stopJob"] = "rpc" /\ spc'["stopJob"] # "rpc"
            /\ stopUuid \in job_workers) => spc'["stopJob"] = "idle"
    /\ (spc["serverStop"] = "off" /\ spc'["serverStop"] # "off"
            /\ JobUuid \in job_workers) => spc'["serverStop"] = "idle"

\* C25: the table of live jobs is consistent under the insert of the
\* dispatch loop, the removal at the end of the job and the lookups of
\* stopJob and ExecutorServer.stop: the job is in the table from the moment
\* it is registered until its own cleanup removes it, it is removed
\* exactly once and not inserted again, and a lookup made while it is
\* registered finds it.
C25_TableConsistent == []C25_State /\ [][C25_Step]_vars

\* the job was found by both lookups, was aborted, and has left the table
C25_Witness ==
    /\ epc = "end"
    /\ job_workers = {}
    /\ stopFound = "present"
    /\ spc = [s \in Stoppers |-> "done"]
    /\ aborted

(***************************************************************************)
(* Further properties of the update coordinator, checked under SpecUpdate  *)
(***************************************************************************)

\* C21: cat submits a refresh task for its connection and project and reads
\* the files only after that task was completed, hence after its refresh
\* returned, and only while it holds merger_lock.
C21_CatReadsRefreshed ==
    /\ mpc \in {"cat_wait", "cat_lock", "cat_read"} =>
          /\ mtask \in 1..Len(tasks)
          /\ tasks[mtask].connection_name = mkey.connection_name
          /\ tasks[mtask].project_name = mkey.project_name
    /\ mpc \in {"cat_lock", "cat_read"} =>
          /\ tasks[mtask].event
          /\ completions[mtask] >= 1
          /\ refreshes[mtask] >= 1
          /\ mtask \notin raised
          /\ utask # mtask
    /\ mpc = "cat_read" =>
          /\ merger_lock = "merger"
          /\ upc # "update"

\* cat reads the files of a project whose refresh it waited for
C21_Witness ==
    /\ mpc = "cat_read"
    /\ merger_lock = "merger"
    /\ refreshes[mtask] = 1
    /\ tasks[mtask].event

\* the lock is released when updateRepo raised, and the update thread is
\* back at its loop
C26_State ==
    /\ merger_lock = "update" => upc = "update"
    /\ \A t \in raised : refreshes[t] = 1 /\ (utask = t => upc = "update")

\* C26: after a refresh raised the lock is released and the update thread
\* goes on with the next task of the queue, so that a failed refresh blocks
\* no later refresh, cat or merge: the merger listener thread comes back
\* to take its next request, and every task still queued is refreshed
\* unless the server is stopped.
C26_FailedRefreshBlocksNothing ==
    /\ []C26_State
    /\ (raised # {}) ~> (mpc \in {"get", "exit"})
    /\ \A t \in 1..MaxUpdates :
          (raised # {} /\ t \in 1..Len(tasks) /\ refreshes[t] = 0)
              ~> (~running \/ (t \in 1..Len(tasks) /\ refreshes[t] = 1))

\* C32: the update queue never holds two tasks with the same (connection,
\* project) key, whatever puts and gets the job threads, the merger
\* listener, stop() and the update thread have made.
C32_OneTaskPerKey ==
    \A i, k \in 1..Len(queue) :
        (i # k /\ queue[i] # None /\ queue[k] # None) =>
            \/ tasks[queue[i]].connection_name # tasks[queue[k]].connection_name
            \/ tasks[queue[i]].project_name # tasks[queue[k]].project_name

\* a job thread and cat called update() for the same key after stop() put
\* the sentinel, and the queue holds the sentinel and the one task
C32_Witness ==
    /\ queue = <<None, 1>>
    /\ Len(tasks) = 1
    /\ mpc = "cat_wait"
    /\ mtask = 1
    /\ \E j \in Jobs : jtasks[j] = <<1>>

\* what holds of the task `got` that an update() call for `key` returns:
\* it is in the queue, not popped, with no refresh of it begun; and when a
\* refresh of the key is in progress and no task of the key is pending, it
\* is a new task at the end of the queue
FreshTask(key, got) ==
    /\ \E i \in 1..Len(queue') : queue'[i] = got
    /\ utask # got
    /\ refreshes'[got] = 0
    /\ ~tasks'[got].event
    /\ (utask # None /\ HasKey(utask, key) /\ PendingWithKey(key) = {}) =>
          /\ got = Len(tasks) + 1
          /\ queue' = Append(queue, got)

\* every update() call of a job thread and of cat returns such a task
C33_Step ==
    /\ \A j \in Jobs :
          Len(jtasks'[j]) = Len(jtasks[j]) + 1 =>
             FreshTask(jkeys'[j][Len(jkeys'[j])], jtasks'[j][Len(jtasks'[j])])
    /\ (mpc = "cat_update" /\ mpc' = "cat_wait") => FreshTask(mkey, mtask')

\* a waiter is released only by the one refresh of its task
C33_State ==
    /\ \A t \in 1..Len(tasks) : tasks[t].event => refreshes[t] = 1
    /\ \A j \in Jobs : \A i \in 1..jwait[j] : refreshes[jtasks[j][i]] = 1
    /\ mpc \in {"cat_lock", "cat_read"} => refreshes[mtask] = 1

\* C33: the task an update() call returns is still in the queue, so that
\* its refresh begins after the call; a call made while a refresh of the
\* same key is in progress gets a new task, not the one being refreshed,
\* and no waiter is released by a refresh that began before its request.
C33_RefreshAfterRequest == []C33_State /\ [][C33_Step]_vars

\* cat asked for the key that is being refreshed, got a new task, and was
\* released by the refresh of that task
C33_Witness ==
    /\ mpc = "cat_lock"
    /\ mtask = 2
    /\ HasKey(1, mkey)
    /\ refreshes = <<1, 1>>
    /\ \E j \in Jobs : jtasks[j] = <<1>>

\* the tasks of the queue, the sentinel left out
QueuedTasks == SelectSeq(queue, LAMBDA x : x # None)

\* the tasks are in the queue in the order of their first enqueue, the
\* order of their ids; a task is refreshed once, after every task enqueued
\* before it was refreshed
C27_State ==
    /\ \A i \in 1..Len(QueuedTasks), k \in 1..Len(QueuedTasks) :
          i < k => QueuedTasks[i] < QueuedTasks[k]
    /\ \A t \in 1..Len(tasks) :
          /\ refreshes[t] <= 1
          /\ (utask = t \/ refreshes[t] = 1) =>
                /\ \A i \in 1..Len(QueuedTasks) : t < QueuedTasks[i]
                /\ \A a \in 1..(t - 1) : refreshes[a] = 1

\* a submission that is coalesced, or that returns an equal task, leaves
\* the queue as it is, and the queue changes only at its two ends
C27_Step ==
    /\ (tasks' = tasks /\ (jtasks' # jtasks \/ mtask' \notin {mtask, None}))
          => queue' = queue
    /\ \/ queue' = queue
       \/ queue # <<>> /\ queue' = Tail(queue)
       \/ \E x \in {None, Len(tasks) + 1} : queue' = Append(queue, x)

\* C27: the update thread refreshes the tasks in the order of their first
\* enqueue: of two tasks the one enqueued first is popped and refreshed
\* first, and a coalesced submission does not move the task it joined.
C27_Fifo == []C27_State /\ [][C27_Step]_vars

\* two tasks with different keys were queued together, and both were
\* refreshed
C27_Witness ==
    /\ Len(tasks) = 2
    /\ tasks[1].connection_name # tasks[2].connection_name
    /\ refreshes = <<1, 1>>
    /\ raised = {}

\* no refresh is made for the sentinel
C28_State == upc \in {"lock", "update", "complete"} => utask # None

\* C28: once ExecutorServer.stop has put the None sentinel the update
\* thread ends, whether it was waiting at the empty queue or refreshing,
\* and it makes no refresh for the sentinel.
C28_UpdateLoopEnds == []C28_State /\ ((ssp = "done") ~> (upc = "exit"))

\* the update thread took the sentinel from the queue and ended
C28_Witness ==
    /\ ssp = "done"
    /\ upc = "exit"
    /\ queue = <<>>
    /\ Len(tasks) >= 1

\* C35: every task that update() returned is eventually marked complete,
\* also when stop() is called while it is queued, and no job thread and no
\* cat request waits for a task forever.
C35_EveryTaskCompleted ==
    /\ \A t \in 1..MaxUpdates :
          (t <= Len(tasks)) ~> (t <= Len(tasks) /\ tasks[t].event)
    /\ \A j \in Jobs : (jpc[j] = "wait") ~> (jpc[j] = "synced")
    /\ (mpc = "cat_wait") ~> (mpc = "cat_lock")

\* the stages of _execute in which a merger of the job clones, merges or
\* checks out with the shared cache as its source
CacheStages ==
    IF GetMergerCacheRoot("src_root") = "merge_root"
    THEN {"clone", "merge", "prepare"} ELSE {}

\* C36: the job thread passes no stage that reads the shared repository
\* cache (the clones, the merge of the items, the checkout of a trusted
\* project) while the update thread is refreshing a repository of the
\* cache.
C36_NoCacheReadDuringRefresh ==
    [][(\E i \in (Len(stages) + 1)..Len(stages') : stages'[i] \in CacheStages)
           => upc # "update"]_vars

(***************************************************************************)
(* The order of the stages of a job, checked under SpecStages              *)
(***************************************************************************)

\* the place of a stage of _execute in the order of the stages
StageRank(e) ==
    CASE e = "synced" -> 1
      [] e = "clone" -> 2
      [] e = "merge" -> 3
      [] e = "checkout" -> 4
      [] e = "prepare" -> 5
      [] e = "data" -> 6

\* the place of a phase of runPlaybooks in the order of the phases
PhaseRank(ph) ==
    CASE ph = "pre" -> 1
      [] ph = "run" -> 2
      [] ph = "post" -> 3

\* whether a stage was passed
Passed(e) == \E i \in 1..Len(stages) : stages[i] = e

\* the stages were passed in their order, each after the ones it needs;
\* the clones follow the last task.wait(), whose tasks are all refreshed;
\* no playbook runs before every playbook is prepared; the calls of
\* runPlaybooks are the pre playbooks, then the main playbook, then the
\* post playbooks
C30_State ==
    /\ \A i \in 1..Len(stages), k \in 1..Len(stages) :
          i < k => StageRank(stages[i]) <= StageRank(stages[k])
    /\ Passed("clone") => Passed("synced")
    /\ Passed("checkout") => Passed("clone")
    /\ Passed("prepare") => Passed("checkout")
    /\ Passed("data") => Passed("prepare")
    /\ Passed("synced") =>
          /\ jpc[JobUuid] = "synced"
          /\ jtasks[JobUuid] # <<>>
          /\ jwait[JobUuid] = Len(jtasks[JobUuid])
          /\ \A i \in 1..Len(jtasks[JobUuid]) :
                /\ tasks[jtasks[JobUuid][i]].event
                /\ refreshes[jtasks[JobUuid][i]] = 1
    /\ (pc # "idle" \/ calls # <<>> \/ launched # {}) =>
          /\ Passed("data")
          /\ Len(PrepOf("pre")) = nPre
          /\ Len(PrepOf("post")) = nPost
          /\ playbook # None
          /\ \A i \in 1..Len(prep) : prep[i][3] # "ExecutorError"
    /\ \A i \in 1..Len(calls), k \in 1..Len(calls) :
          i < k => PhaseRank(calls[i][1]) <= PhaseRank(calls[k][1])
    /\ CallsOf("run") # <<>> => CallsOf("pre") = PhaseCalls("pre", nPre)
    /\ IsPrefix(CallsOf("pre"), PhaseCalls("pre", nPre))
    /\ IsPrefix(CallsOf("post"), PhaseCalls("post", nPost))
    /\ Len(CallsOf("run")) <= 1

\* nothing is submitted, merged, checked out or prepared once a later stage
\* was entered
C30_Step ==
    /\ Passed("synced") =>
          UNCHANGED <<jtasks, jwait, jpc>>
    /\ (pc # "idle" \/ calls # <<>>) => UNCHANGED <<stages, prep, checkouts>>

\* C30: a job goes through its stages in order: it submits its refresh
\* requests and waits for every one of them before it clones or merges,
\* merges before it checks out branches, prepares every playbook before it
\* launches a subprocess, and runs the pre playbooks before the main
\* playbook before the post playbooks.
C30_StagesInOrder == []C30_State /\ [][C30_Step]_vars

\* a job that passed every stage and ran a playbook of each phase
C30_Witness ==
    /\ epc = "end"
    /\ Len(jtasks[JobUuid]) = 2
    /\ Passed("merge")
    /\ Passed("data")
    /\ nPre = 1
    /\ nPost = 1
    /\ Len(calls) = 3
    /\ Cardinality(launched) = 3
    /\ sent = <<"SUCCESS">>

(***************************************************************************)
(* The specifications                                                      *)
(***************************************************************************)

\* the server with its update coordinator running, the job not yet in
\* runPlaybooks
\* findPlaybook, prepareZuulRole and checkoutBranch not followed
IdlePure ==
    IdlePlugins /\ IdleRole /\ IdleCheckout /\ IdleTrusted /\ IdleExit

InitSpecUpdate == InitUpdate /\ IdleRun /\ IdleJob /\ IdlePure

\* a job in runPlaybooks, the update coordinator at rest
InitSpecRun == InitUpdate /\ InitRun /\ IdleJob /\ IdlePure

\* a job from its execute request to the end of its thread, with a stop
\* request and keep commands
InitSpecJob == InitUpdate /\ InitJob /\ IdlePure

\* one findPlaybook call
InitSpecPlugins ==
    InitUpdate /\ IdleRun /\ IdleJob /\ InitPlugins /\ IdleRole /\ IdleCheckout
    /\ IdleTrusted /\ IdleExit

\* one prepareZuulRole call
InitSpecRole ==
    InitUpdate /\ IdleRun /\ IdleJob /\ IdlePlugins /\ InitRole /\ IdleCheckout
    /\ IdleTrusted /\ IdleExit

\* one checkoutBranch call
InitSpecCheckout ==
    InitUpdate /\ IdleRun /\ IdleJob /\ IdlePlugins /\ IdleRole /\ InitCheckout
    /\ IdleTrusted /\ IdleExit

SpecUpdate == InitSpecUpdate /\ [][NextUpdate]_vars

\* SpecUpdate with its threads scheduled
SpecUpdateLive == SpecUpdate /\ FairUpdate

\* the update thread up to the end of its loop, with its thread scheduled
SpecStop == InitSpecUpdate /\ [][NextStop]_vars /\ FairStop

SpecRun == InitSpecRun /\ [][NextRun]_vars

SpecJob == InitSpecJob /\ [][NextJob]_vars

\* one job through execute, and the update thread
InitSpecStages == InitUpdate /\ InitStages /\ IdlePure

SpecStages == InitSpecStages /\ [][NextStages]_vars

\* one job through execute, the update thread and cat requests
SpecCache == InitSpecStages /\ [][NextCache]_vars

\* one job, a stop request and the shutdown of the server
InitSpecTable == InitUpdate /\ InitTable /\ IdlePure

SpecTable == InitSpecTable /\ [][NextTable]_vars

SpecPlugins == InitSpecPlugins /\ [][NextPlugins]_vars

SpecRole == InitSpecRole /\ [][NextRole]_vars

SpecCheckout == InitSpecCheckout /\ [][NextCheckout]_vars

\* the checkoutTrustedProject calls of one job
InitSpecTrusted ==
    /\ InitUpdate /\ IdleRun /\ IdleJob
    /\ IdlePlugins /\ IdleRole /\ IdleCheckout /\ InitTrusted /\ IdleExit

SpecTrusted == InitSpecTrusted /\ [][NextTrusted]_vars

\* the end of one runAnsible call
InitSpecExit ==
    /\ InitUpdate /\ IdleRun /\ IdleJob
    /\ IdlePlugins /\ IdleRole /\ IdleCheckout /\ IdleTrusted /\ InitExit

SpecExit == InitSpecExit /\ [][NextExit]_vars

====
